---- MODULE Spec2Model ----
(***************************************************************************)
(* Model of the quantitative core of the family-office platform:           *)
(*   app/services/risk_service.py  (RiskService)                           *)
(*   app/services/capm_service.py  (CAPMService)                           *)
(*   app/api/analytics.py          (the Monte Carlo endpoint)              *)
(*                                                                         *)
(* Numbers.  Python floats are modelled in fixed point.  A rate or a       *)
(* return is an integer count of 1e-7 (so 0.02 is 200000); a beta is an    *)
(* integer count of 1e-6; money is whole currency units on input and cents *)
(* on output.  Every division and every round() of the code is modelled by *)
(* RoundHalfEven on the exact quotient, which is what round() and IEEE     *)
(* division do up to the last binary digit.                                *)
(***************************************************************************)
EXTENDS Integers, Sequences, FiniteSets, TLC

VARIABLES
    portfolio_data,   \* RiskService.portfolio_data: the snapshot the instance holds
    returns_cache,    \* RiskService._returns_cache: <<>> is None, <<series>> is a cached array
    yf,               \* the market-data library as the process sees it (import, download)
    risk_call,        \* the last RiskService / analytics call and its arguments
    risk_result,      \* what that call returned or raised
    ctor_rf,          \* the risk_free_rate argument CAPMService was constructed with
    risk_free_rate,   \* CAPMService.risk_free_rate
    capm_call,        \* the last CAPMService call and its arguments
    capm_result,      \* what that call returned or raised
    agent_tasks,      \* the agent_tasks table: AgentTask rows in creation order
    queue_attempts,   \* per row, the analyses process_agent_queue_task ran for it
    agents,           \* AgentManager._agents: the agent types with a cached instance
    failing_agents,   \* the agent types whose analysis raises on this portfolio
    agent_call,       \* the last AgentManager call and its arguments
    agent_result,     \* what that call returned or raised
    analyze_log,      \* the agent types that call ran an analysis for, in order
    running,          \* where a run_analysis that saves its task stands
    queue,            \* where process_agent_queue_task stands, with its batch
    cancel_result     \* what the last cancel_task returned

riskVars == <<portfolio_data, returns_cache, yf, risk_call, risk_result>>
capmVars == <<ctor_rf, risk_free_rate, capm_call, capm_result>>
agentVars == <<agent_tasks, queue_attempts, agents, failing_agents, agent_call,
               agent_result, analyze_log, running, queue, cancel_result>>
vars == <<portfolio_data, returns_cache, yf, risk_call, risk_result,
          ctor_rf, risk_free_rate, capm_call, capm_result,
          agent_tasks, queue_attempts, agents, failing_agents, agent_call,
          agent_result, analyze_log, running, queue, cancel_result>>

----------------------------------------------------------------------------
(* Bounds of the model.                                                    *)

\* longest return history (rows of the return frame) the provider hands out
MaxLen == 3
\* largest VaR/CVaR time horizon, in days
MaxHorizon == 2

----------------------------------------------------------------------------
(* Arithmetic helpers.                                                     *)

Abs(x) == IF x < 0 THEN -x ELSE x

\* round(num/den) to the nearest integer, ties to even; den > 0
RoundHalfEven(num, den) ==
    LET q == num \div den
        r == num % den
    IN  IF 2 * r < den THEN q
        ELSE IF 2 * r > den THEN q + 1
        ELSE IF q % 2 = 0 THEN q ELSE q + 1

RECURSIVE ISqrtBin(_, _, _)
ISqrtBin(n, lo, hi) ==
    IF lo >= hi THEN lo
    ELSE LET mid == (lo + hi + 1) \div 2
         IN  IF mid * mid <= n THEN ISqrtBin(n, mid, hi)
             ELSE ISqrtBin(n, lo, mid - 1)

\* np.sqrt on a non-negative integer, rounded to the nearest integer
SqrtNearest(n) ==
    LET r == ISqrtBin(n, 0, IF n < 46340 THEN n ELSE 46340)
    IN  IF n - r * r > r THEN r + 1 ELSE r

\* np.sqrt(time_horizon), in units of 1e-2
SqrtHorizon(h) == SqrtNearest(h * 10000)

RECURSIVE SumSeq(_)
SumSeq(s) == IF s = <<>> THEN 0 ELSE Head(s) + SumSeq(Tail(s))

RECURSIVE Insert(_, _)
Insert(x, s) ==
    IF s = <<>> THEN <<x>>
    ELSE IF x <= Head(s) THEN <<x>> \o s
    ELSE <<Head(s)>> \o Insert(x, Tail(s))

RECURSIVE SortAsc(_)
SortAsc(s) == IF s = <<>> THEN <<>> ELSE Insert(Head(s), SortAsc(Tail(s)))

\* np.mean of a non-empty series
Mean(s) == RoundHalfEven(SumSeq(s), Len(s))

\* np.std (population standard deviation) of a non-empty series, in units of
\* 1e-5: the deviations are taken at that resolution before squaring
Std(s) ==
    LET m == Mean(s)
        d == [i \in 1..Len(s) |-> RoundHalfEven(s[i] - m, 100)]
        sq == [i \in 1..Len(s) |-> d[i] * d[i]]
    IN  SqrtNearest(RoundHalfEven(SumSeq(sq), Len(s)))

\* np.percentile(values, q) with numpy's default linear interpolation; q is a
\* whole percentage 0..100 and values is non-empty
Percentile(values, q) ==
    LET a == SortAsc(values)
        n == Len(a)
        pos == (n - 1) * q
        i == pos \div 100
        f == pos % 100
    IN  IF i + 1 >= n THEN a[n]
        ELSE a[i + 1] + RoundHalfEven((a[i + 2] - a[i + 1]) * f, 100)

\* scipy.stats.norm.ppf(1 - confidence_level), in units of 1e-2, at the
\* confidence levels the model calls with
NormPpfUpper(c) ==
    CASE c = 90 -> -128
      [] c = 95 -> -164
      [] c = 99 -> -233
      [] OTHER -> 0

----------------------------------------------------------------------------
(* Portfolio snapshots and the market-data library.                        *)

Symbols == {"AAA", "BBB"}
Tradeable == {"stock", "etf", "mutual_fund"}

\* one holding; beta is <<>> when the holding carries no cached beta and
\* <<b>> when it does; symbol "" is a holding without a symbol
Asset(sym, type, value, beta) ==
    [symbol |-> sym, asset_type |-> type, current_value |-> value, beta |-> beta]

RECURSIVE SumValues(_)
SumValues(assets) ==
    IF assets = <<>> THEN 0
    ELSE Head(assets).current_value + SumValues(Tail(assets))

\* the total current value of the holdings of one asset type
RECURSIVE SumOfType(_, _)
SumOfType(assets, type) ==
    IF assets = <<>> THEN 0
    ELSE (IF Head(assets).asset_type = type THEN Head(assets).current_value ELSE 0)
         + SumOfType(Tail(assets), type)

\* the 'breakdown' of a snapshot: the buckets are named stocks, etf, bonds and
\* real_estate
Breakdown(assets, realEstate) ==
    [stocks |-> SumOfType(assets, "stock"),
     etf |-> SumOfType(assets, "etf"),
     bonds |-> SumOfType(assets, "bond"),
     real_estate |-> realEstate]

\* the snapshot PortfolioService hands out: total_value is the value of all
\* holdings plus the value of the real estate
Snapshot(assets, realEstate) ==
    [total_value |-> SumValues(assets) + realEstate,
     assets |-> assets,
     real_estate |-> realEstate,
     breakdown |-> Breakdown(assets, realEstate)]

HoldingLists ==
    { <<>>,
      << Asset("AAA", "stock", 60, <<1200000>>) >>,
      << Asset("AAA", "stock", 60, <<1200000>>), Asset("BBB", "etf", 40, <<800000>>) >>,
      << Asset("AAA", "stock", 50, <<>>), Asset("", "bond", 50, <<>>) >>,
      << Asset("AAA", "stock", 0, <<1200000>>), Asset("BBB", "mutual_fund", 0, <<0>>) >>,
      << Asset("BBB", "stock", 30, <<1500000>>), Asset("", "stock", 70, <<>>) >>,
      << Asset("", "bond", 100, <<>>) >>,
      << Asset("AAA", "stock", 50, <<>>), Asset("BBB", "etf", 50, <<>>) >> }

Snapshots == { Snapshot(a, re) : a \in HoldingLists, re \in {0, 100} }

\* the snapshots a RiskService is constructed with
RiskSnapshots ==
    { p \in Snapshots :
        \/ p.assets = <<>>
        \/ Head(p.assets).symbol = "AAA"
        \/ Head(p.assets).asset_type = "bond" /\ p.real_estate = 0 }

\* one row of the frame data.pct_change().dropna(): the day's return of each symbol
ReturnRows ==
    { [AAA |-> -200000, BBB |-> 100000],
      [AAA |-> 500000, BBB |-> -100000] }

\* a frame with a falling day followed by a day without any price change
FlatDayFrame == << [AAA |-> -200000, BBB |-> 100000], [AAA |-> 0, BBB |-> 0] >>

Frames == UNION { [1..n -> ReturnRows] : n \in 0..MaxLen } \cup {FlatDayFrame}

\* what `import yfinance` and yf.download do in this process:
\*   missing  the import raises ImportError
\*   error    the download raises
\*   ok       the download returns a frame: empty (no price row), or with
\*            price rows whose day-to-day changes are `returns`
FrameStates ==
    { [status |-> "missing", empty |-> TRUE, returns |-> <<>>],
      [status |-> "error", empty |-> TRUE, returns |-> <<>>],
      [status |-> "ok", empty |-> TRUE, returns |-> <<>>] }
    \cup { [status |-> "ok", empty |-> FALSE, returns |-> f] : f \in Frames }

----------------------------------------------------------------------------
(* RiskService.                                                            *)

\* the `symbols` list of _get_portfolio_returns, as the set of columns the
\* download returns for it
TradeableSymbols(assets) ==
    { assets[i].symbol : i \in { j \in 1..Len(assets) :
          assets[j].symbol # "" /\ assets[j].asset_type \in Tradeable } }

RECURSIVE SumValuesOf(_, _)
SumValuesOf(assets, syms) ==
    IF assets = <<>> THEN 0
    ELSE (IF Head(assets).symbol \in syms THEN Head(assets).current_value ELSE 0)
         + SumValuesOf(Tail(assets), syms)

\* next((a['current_value'] for a in assets if a.get('symbol') == symbol), 0)
FirstValueOf(assets, sym) ==
    LET hits == { i \in 1..Len(assets) : assets[i].symbol = sym }
    IN  IF hits = {} THEN 0
        ELSE assets[CHOOSE i \in hits : \A j \in hits : i <= j].current_value

RECURSIVE SumOver(_, _)
SumOver(f, S) ==
    IF S = {} THEN 0
    ELSE LET x == CHOOSE y \in S : TRUE IN f[x] + SumOver(f, S \ {x})

\* returns.mean(axis=1): the unweighted mean of each row over the columns
RowMeans(frame, syms) ==
    [t \in 1..Len(frame) |->
        RoundHalfEven(SumOver([s \in syms |-> frame[t][s]], syms), Cardinality(syms))]

\* (returns * weights).sum(axis=1) with weights[s] = value of s / total_value
WeightedRows(frame, syms, assets, total) ==
    [t \in 1..Len(frame) |->
        RoundHalfEven(
            SumOver([s \in syms |-> frame[t][s] * FirstValueOf(assets, s)], syms),
            total)]

\* _get_portfolio_returns on an instance holding snapshot pd and cache `cache`:
\* the array it returns and the cache it leaves
GetPortfolioReturns(pd, cache, lib) ==
    LET syms == TradeableSymbols(pd.assets)
        total == SumValuesOf(pd.assets, syms)
    IN  IF cache # <<>> THEN [series |-> cache[1], cache |-> cache]
        ELSE IF pd.assets = <<>> THEN [series |-> <<>>, cache |-> cache]
        ELSE IF lib.status = "missing" THEN [series |-> <<>>, cache |-> cache]
        ELSE IF syms = {} THEN [series |-> <<>>, cache |-> cache]
        ELSE IF lib.status = "error" THEN [series |-> <<>>, cache |-> cache]
        ELSE IF lib.empty THEN [series |-> <<>>, cache |-> cache]
        ELSE IF total = 0
             THEN [series |-> RowMeans(lib.returns, syms), cache |-> cache]
        ELSE LET r == WeightedRows(lib.returns, syms, pd.assets, total)
             IN  [series |-> r, cache |-> <<r>>]

\* returns * np.sqrt(time_horizon)
ScaledReturns(returns, h) ==
    [i \in 1..Len(returns) |-> RoundHalfEven(returns[i] * SqrtHorizon(h), 100)]

HistoricalVar(returns, c, h) ==
    IF Len(returns) = 0 THEN 0
    ELSE Percentile(ScaledReturns(returns, h), 100 - c)

ParametricVar(returns, c, h) ==
    IF Len(returns) = 0 THEN 0
    ELSE Mean(returns) * h
         - RoundHalfEven(NormPpfUpper(c) * Std(returns) * SqrtHorizon(h), 100)

\* MonteCarloVar without its guard for an empty series
MonteCarloVarUnguarded(returns, c, h, draw) == draw

\* the percentile of the simulated normal draws: `draw` is the value the
\* random sample yields; with zero spread every draw is the mean
MonteCarloVar(returns, c, h, draw) ==
    IF Len(returns) = 0 THEN 0
    ELSE IF Std(returns) = 0 THEN Mean(returns) * h
    ELSE draw

CalculationError(type) ==
    [outcome |-> "raise", error |-> "CalculationError", calculation_type |-> type]

\* calculate_var: the result and the cache the call leaves
CalculateVarOutcome(pd, cache, lib, c, h, m, draw) ==
    LET got == GetPortfolioReturns(pd, cache, lib)
        known == m \in {"historical", "parametric", "monte_carlo"}
        var_pct == CASE m = "historical" -> HistoricalVar(got.series, c, h)
                     [] m = "parametric" -> ParametricVar(got.series, c, h)
                     [] OTHER -> MonteCarloVar(got.series, c, h, draw)
    IN  IF pd.total_value = 0
        THEN [result |-> [outcome |-> "return",
                          var_absolute |-> 0,
                          var_percentage |-> 0,
                          confidence_level |-> c,
                          time_horizon_days |-> h,
                          method |-> m],
              cache |-> cache]
        ELSE IF ~known
        THEN [result |-> CalculationError("var"), cache |-> got.cache]
        ELSE [result |-> [outcome |-> "return",
                          var_absolute |-> RoundHalfEven(pd.total_value * Abs(var_pct), 100000),
                          var_percentage |-> RoundHalfEven(var_pct, 10),
                          confidence_level |-> c,
                          time_horizon_days |-> h,
                          method |-> m,
                          portfolio_value |-> pd.total_value],
              cache |-> got.cache]

\* TailReturns with the comparison turned round: the returns at or above the threshold
TailReturnsAbove(scaled, threshold) ==
    SelectSeq(scaled, LAMBDA x : x >= threshold)

\* scaled_returns[scaled_returns <= var_threshold]
TailReturns(scaled, threshold) ==
    SelectSeq(scaled, LAMBDA x : x <= threshold)

\* calculate_cvar: the result and the cache the call leaves
CalculateCvarOutcome(pd, cache, lib, c, h) ==
    LET got == GetPortfolioReturns(pd, cache, lib)
        scaled == ScaledReturns(got.series, h)
        var_threshold == Percentile(scaled, 100 - c)
        tail == TailReturns(scaled, var_threshold)
        cvar_pct == IF Len(tail) = 0 THEN var_threshold ELSE Mean(tail)
    IN  IF Len(got.series) = 0 \/ pd.total_value = 0
        THEN [result |-> [outcome |-> "return",
                          cvar_absolute |-> 0,
                          cvar_percentage |-> 0,
                          confidence_level |-> c,
                          time_horizon_days |-> h],
              cache |-> got.cache]
        ELSE [result |-> [outcome |-> "return",
                          cvar_absolute |-> RoundHalfEven(pd.total_value * Abs(cvar_pct), 100000),
                          cvar_percentage |-> RoundHalfEven(cvar_pct, 10),
                          confidence_level |-> c,
                          time_horizon_days |-> h,
                          var_percentage |-> RoundHalfEven(var_threshold, 10)],
              cache |-> got.cache]

\* monte_carlo_simulation: the result and the cache the call leaves; `median`
\* is the median of the simulated end values, in cents, as the random sample
\* yields it
MonteCarloSimulationOutcome(pd, cache, lib, years, sims, median) ==
    LET got == GetPortfolioReturns(pd, cache, lib)
        mean_return == IF Len(got.series) = 0 THEN 800000
                       ELSE Mean(got.series) * 252
        std_return == IF Len(got.series) = 0 THEN 1500000
                      ELSE RoundHalfEven(Std(got.series) * SqrtNearest(2520000), 100)
    IN  IF pd.total_value = 0
        THEN [result |-> [outcome |-> "return", error |-> "Portfolio value is zero"],
              cache |-> cache]
        ELSE [result |-> [outcome |-> "return",
                          initial_value |-> pd.total_value,
                          time_horizon_years |-> years,
                          simulations |-> sims,
                          expected_return |-> RoundHalfEven(mean_return, 1000),
                          volatility |-> RoundHalfEven(std_return, 1000),
                          median_end_value |-> median],
              cache |-> got.cache]

\* GET /analytics/monte-carlo: the handler clamps the simulation count, runs
\* the simulation on a RiskService of its own and wraps what it returns
GetMonteCarloResponse(pd, lib, years, sims, median) ==
    LET simulations == IF sims > 100000 THEN 100000 ELSE sims
        res == MonteCarloSimulationOutcome(pd, <<>>, lib, years, simulations, median).result
    IN  IF res.outcome = "raise" /\ res.error = "CalculationError"
        THEN [outcome |-> "return", http |-> 400, status |-> "error"]
        ELSE IF res.outcome = "raise"
        THEN [outcome |-> "return", http |-> 500, status |-> "error"]
        ELSE [outcome |-> "return", http |-> 200, status |-> "success", data |-> res]

\* (1 + returns).cumprod(), in units of 1e-4
RECURSIVE CumulativeReturns(_, _)
CumulativeReturns(returns, start) ==
    IF returns = <<>> THEN <<>>
    ELSE LET c == RoundHalfEven(start * (10000 + RoundHalfEven(Head(returns), 1000)), 10000)
         IN  <<c>> \o CumulativeReturns(Tail(returns), c)

\* np.maximum.accumulate(cumulative)
RunningMax(cumulative) ==
    [t \in 1..Len(cumulative) |->
        CHOOSE m \in { cumulative[k] : k \in 1..t } :
            \A k \in 1..t : cumulative[k] <= m]

\* Drawdowns measured upwards from the running maximum
DrawdownsInverted(returns) ==
    LET cumulative == CumulativeReturns(returns, 10000)
        running_max == RunningMax(cumulative)
    IN  [t \in 1..Len(returns) |->
            RoundHalfEven((running_max[t] - cumulative[t]) * 100000, running_max[t]) * 10]

\* (cumulative - running_max) / running_max, in units of 1e-6
Drawdowns(returns) ==
    LET cumulative == CumulativeReturns(returns, 10000)
        running_max == RunningMax(cumulative)
    IN  [t \in 1..Len(returns) |->
            RoundHalfEven((cumulative[t] - running_max[t]) * 100000, running_max[t]) * 10]

\* np.min of a non-empty series
MinOf(series) ==
    CHOOSE m \in { series[k] : k \in 1..Len(series) } :
        \A k \in 1..Len(series) : m <= series[k]

\* calculate_max_drawdown() without a returns argument: the result and the
\* cache the call leaves; the drawdowns are reported in units of 1e-4 percent
MaxDrawdownOutcome(pd, cache, lib) ==
    LET got == GetPortfolioReturns(pd, cache, lib)
        drawdowns == Drawdowns(got.series)
    IN  IF Len(got.series) = 0
        THEN [result |-> [outcome |-> "return", max_drawdown |-> 0,
                          max_drawdown_duration |-> 0],
              cache |-> got.cache]
        ELSE [result |-> [outcome |-> "return",
                          max_drawdown |-> MinOf(drawdowns),
                          current_drawdown |-> drawdowns[Len(drawdowns)]],
              cache |-> got.cache]

\* a stress scenario: its name and its shocks, in whole percent, to the three
\* factors; a dict of scenarios is the sequence of them in iteration order
Scenario(name, equity, bonds, realEstate) ==
    [name |-> name, equity |-> equity, bonds |-> bonds, real_estate |-> realEstate]

\* the scenarios stress_test uses when it is given none
DefaultScenarios ==
    << Scenario("2008_financial_crisis", -50, 5, -30),
       Scenario("covid_march_2020", -35, 3, -10),
       Scenario("dot_com_crash", -45, 10, 5),
       Scenario("interest_rate_shock_up", -15, -10, -5),
       Scenario("interest_rate_shock_down", 10, 15, 5),
       Scenario("inflation_spike", -10, -15, 10),
       Scenario("recession", -30, 8, -20) >>

\* the factor stress_test applies to an allocation bucket
BucketFactor(bucket, sc) ==
    IF bucket \in {"stock", "etf", "mutual_fund", "investments"} THEN sc.equity
    ELSE IF bucket \in {"bond"} THEN sc.bonds
    ELSE IF bucket = "real_estate" THEN sc.real_estate
    ELSE 0

\* sum(breakdown.values()) of _get_allocation_weights
AllocationTotal(pd) == SumOver(pd.breakdown, DOMAIN pd.breakdown)

\* the sum over the buckets of bucket value times factor (percent); the
\* allocation is empty when the breakdown sums to zero
ShockedValue(pd, sc) ==
    IF AllocationTotal(pd) = 0 THEN 0
    ELSE SumOver([k \in DOMAIN pd.breakdown |-> pd.breakdown[k] * BucketFactor(k, sc)],
                 DOMAIN pd.breakdown)

\* the entry of results for one scenario: impact_percentage in units of 0.01
\* percent, stressed_value and loss in cents
StressResult(pd, sc) ==
    LET total == IF AllocationTotal(pd) = 0 THEN 1 ELSE AllocationTotal(pd)
        shocked == ShockedValue(pd, sc)
    IN  [name |-> sc.name,
         impact_percentage |-> RoundHalfEven(shocked * 100, total),
         stressed_value |-> RoundHalfEven(pd.total_value * (100 * total + shocked), total),
         loss |-> RoundHalfEven(0 - pd.total_value * shocked, total)]

\* WorstCase taking the last of the smallest stressed values
WorstCaseLast(results) ==
    LET low == CHOOSE i \in 1..Len(results) :
                  /\ \A j \in 1..Len(results) :
                        results[i].stressed_value <= results[j].stressed_value
                  /\ \A j \in (i + 1)..Len(results) :
                        results[j].stressed_value > results[i].stressed_value
    IN  results[low].name

\* min(results.items(), key=stressed_value)[0]: min keeps the first of equal keys
WorstCase(results) ==
    LET low == CHOOSE i \in 1..Len(results) :
                  /\ \A j \in 1..Len(results) :
                        results[i].stressed_value <= results[j].stressed_value
                  /\ \A j \in 1..(i - 1) :
                        results[j].stressed_value > results[i].stressed_value
    IN  results[low].name

\* stress_test(scenarios); min() of an empty dict raises ValueError
StressTestOutcome(pd, scenarios) ==
    LET results == [i \in 1..Len(scenarios) |-> StressResult(pd, scenarios[i])]
    IN  IF scenarios = <<>> THEN [outcome |-> "raise", error |-> "ValueError"]
        ELSE [outcome |-> "return",
              portfolio_value |-> pd.total_value,
              scenarios |-> results,
              worst_case |-> WorstCase(results)]

\* the symbols in alphabetical order, the order of the columns of a download
SymbolOrder == <<"AAA", "BBB">>

\* the `symbols` list of correlation_analysis, in the order of the holdings
SymbolList(assets) ==
    LET kept == SelectSeq(assets, LAMBDA a : a.symbol # "" /\ a.asset_type \in Tradeable)
    IN  [i \in 1..Len(kept) |-> kept[i].symbol]

\* the columns of the frame downloaded for a list of symbols
Columns(symbols) ==
    SelectSeq(SymbolOrder, LAMBDA c : \E i \in 1..Len(symbols) : symbols[i] = c)

\* returns.corr() for two columns, in units of 1e-4: <<>> is NaN (fewer than
\* two rows, or a column without spread), <<r>> is the coefficient r; the
\* returns are taken in units of 1e-2
Correlation(frame, a, b) ==
    LET rows == 1..Len(frame)
        n == Len(frame)
        x == [t \in rows |-> RoundHalfEven(frame[t][a], 100000)]
        y == [t \in rows |-> RoundHalfEven(frame[t][b], 100000)]
        sx == SumOver(x, rows)
        sy == SumOver(y, rows)
        cov == n * SumOver([t \in rows |-> x[t] * y[t]], rows) - sx * sy
        vx == n * SumOver([t \in rows |-> x[t] * x[t]], rows) - sx * sx
        vy == n * SumOver([t \in rows |-> y[t] * y[t]], rows) - sy * sy
    IN  IF n < 2 \/ vx = 0 \/ vy = 0 THEN <<>>
        ELSE << RoundHalfEven(cov * 1000000, SqrtNearest(vx * vy * 10000)) >>

\* _classify_correlation(corr); every comparison with NaN is false
ClassifyCorrelation(corr) ==
    IF corr = <<>> THEN "very_weak"
    ELSE IF Abs(corr[1]) >= 8000 THEN "very_strong"
    ELSE IF Abs(corr[1]) >= 6000 THEN "strong"
    ELSE IF Abs(corr[1]) >= 4000 THEN "moderate"
    ELSE IF Abs(corr[1]) >= 2000 THEN "weak"
    ELSE "very_weak"

\* the (i, j) pairs with i < j, in the order of the two nested loops
RECURSIVE PairIndexes(_, _, _)
PairIndexes(i, j, n) ==
    IF i > n THEN <<>>
    ELSE IF j > n THEN PairIndexes(i + 1, i + 2, n)
    ELSE << <<i, j>> >> \o PairIndexes(i, j + 1, n)

\* the mean of a sequence of coefficients; NaN as soon as one of them is NaN
MeanCorrelation(cs) ==
    IF \E k \in 1..Len(cs) : cs[k] = <<>> THEN <<>>
    ELSE << RoundHalfEven(SumSeq([k \in 1..Len(cs) |-> cs[k][1]]), Len(cs)) >>

\* the dictionary correlation_analysis builds from a downloaded frame:
\* correlation_matrix.iloc[i, j] reads the columns by position
CorrelationResult(symbols, frame) ==
    LET cols == Columns(symbols)
        idx == PairIndexes(1, 2, Len(symbols))
        coef == [k \in 1..Len(idx) |->
                    Correlation(frame, cols[idx[k][1]], cols[idx[k][2]])]
        avg == MeanCorrelation(coef)
    IN  [outcome |-> "return",
         symbols |-> symbols,
         matrix |-> [i \in 1..Len(cols) |-> [j \in 1..Len(cols) |->
                        Correlation(frame, cols[i], cols[j])]],
         pairs |-> [k \in 1..Len(idx) |->
                      [asset1 |-> symbols[idx[k][1]],
                       asset2 |-> symbols[idx[k][2]],
                       correlation |-> coef[k],
                       strength |-> ClassifyCorrelation(coef[k])]],
         average_correlation |-> avg,
         diversification_score |->
             IF avg = <<>> THEN <<>> ELSE << 10000 - Abs(avg[1]) >>]

CorrelationError(message) == [outcome |-> "return", error |-> message]

\* CorrelationAnalysisOutcome without the try block around the download
CorrelationAnalysisUnprotected(pd, lib) ==
    LET symbols == SymbolList(pd.assets)
    IN  IF Len(pd.assets) < 2 THEN CorrelationError("Need at least 2 assets")
        ELSE IF lib.status = "missing"
        THEN [outcome |-> "raise", error |-> "ImportError"]
        ELSE IF Len(symbols) < 2
        THEN CorrelationError("Need at least 2 tradeable assets with symbols")
        ELSE IF lib.status = "error"
        THEN [outcome |-> "raise", error |-> "Exception"]
        ELSE IF lib.empty THEN CorrelationError("Could not retrieve price data")
        ELSE CorrelationResult(symbols, lib.returns)

\* correlation_analysis(): every exception of the try block comes back as an
\* error entry
CorrelationAnalysisOutcome(pd, lib) ==
    LET symbols == SymbolList(pd.assets)
    IN  IF Len(pd.assets) < 2 THEN CorrelationError("Need at least 2 assets")
        ELSE IF lib.status = "missing" THEN CorrelationError("Correlation analysis failed")
        ELSE IF Len(symbols) < 2
        THEN CorrelationError("Need at least 2 tradeable assets with symbols")
        ELSE IF lib.status = "error" THEN CorrelationError("Correlation analysis failed")
        ELSE IF lib.empty THEN CorrelationError("Could not retrieve price data")
        ELSE CorrelationResult(symbols, lib.returns)

----------------------------------------------------------------------------
(* CAPMService.                                                            *)

\* DEFAULT_RISK_FREE_RATE of the configuration, 0.02
DefaultRiskFreeRate == 200000
\* the number of aligned observations calculate_beta asks for
MinObservations == 50

\* CAPMService.__init__: `arg` is <<>> when no risk_free_rate is passed and
\* <<r>> when r is; `risk_free_rate or default` takes the default for None
\* and for every falsy value
InitRiskFreeRate(arg) ==
    IF arg = <<>> \/ arg[1] = 0 THEN DefaultRiskFreeRate ELSE arg[1]

\* RoundedCapm with the market premium taken as rf - rm
RoundedCapmFlipped(rf, beta, rm) ==
    LET x == rf - rm
        P == (beta \div 1000) * x
        Q == (beta % 1000) * x
        N == (rf % 10) * 1000000 + (P % 10000) * 1000 + Q
        q == (rf \div 10) + (P \div 10000) + (N \div 10000000)
        r == N % 10000000
    IN  IF 2 * r < 10000000 THEN q
        ELSE IF 2 * r > 10000000 THEN q + 1
        ELSE IF q % 2 = 0 THEN q ELSE q + 1

\* round(rf + beta * (rm - rf), 6), in units of 1e-6: rf and rm count 1e-7 and
\* beta counts 1e-6, so the exact value is (rf*10^6 + beta*(rm - rf)) / 10^7;
\* the product is taken in two halves of beta to stay within machine integers
RoundedCapm(rf, beta, rm) ==
    LET x == rm - rf
        P == (beta \div 1000) * x
        Q == (beta % 1000) * x
        N == (rf % 10) * 1000000 + (P % 10000) * 1000 + Q
        q == (rf \div 10) + (P \div 10000) + (N \div 10000000)
        r == N % 10000000
    IN  IF 2 * r < 10000000 THEN q
        ELSE IF 2 * r > 10000000 THEN q + 1
        ELSE IF q % 2 = 0 THEN q ELSE q + 1

\* calculate_expected_return(beta, market_return) on a service whose
\* risk_free_rate is rf
CalculateExpectedReturn(rf, beta, rm) ==
    [outcome |-> "return", value |-> RoundedCapm(rf, beta, rm)]

\* IEEE-754 classes of a Python float; a finite float carries its value, the
\* others are NaN and the two infinities
FloatClasses == {"finite", "nan", "inf", "-inf"}

FloatSign(cls, v) ==
    CASE cls = "inf" -> 1
      [] cls = "-inf" -> -1
      [] OTHER -> IF v > 0 THEN 1 ELSE IF v < 0 THEN -1 ELSE 0

\* the class of the float product a * b
MulClass(ac, a, bc, b) ==
    IF ac = "nan" \/ bc = "nan" THEN "nan"
    ELSE IF ac = "finite" /\ bc = "finite" THEN "finite"
    ELSE LET sgn == FloatSign(ac, a) * FloatSign(bc, b)
         IN  IF sgn = 0 THEN "nan" ELSE IF sgn > 0 THEN "inf" ELSE "-inf"

\* the class of rf + beta * (rm - rf) for a finite rf: rm - rf has the class of
\* rm, and adding the finite rf leaves the class of the product
ExpectedReturnClass(rf, bc, beta, mc, rm) ==
    MulClass(bc, beta, mc, IF mc = "finite" THEN rm - rf ELSE 0)

\* calculate_expected_return on floats of any class: no argument is validated,
\* and round(x, 6) hands a NaN or an infinity back unchanged
CalculateExpectedReturnFloat(rf, bc, beta, mc, rm) ==
    LET cls == ExpectedReturnClass(rf, bc, beta, mc, rm)
    IN  IF cls = "finite" THEN CalculateExpectedReturn(rf, beta, rm)
        ELSE [outcome |-> "return", non_finite |-> cls]

\* a downloaded price history: `rows` price rows on the days first..first+rows-1;
\* the day-to-day change on day t is pattern[1] on even days and pattern[2] on odd
History(first, rows, pattern) ==
    [first |-> first, rows |-> rows, pattern |-> pattern]

\* data['Adj Close'].pct_change().dropna(): the days that carry a return
ReturnDays(h) == (h.first + 1)..(h.first + h.rows - 1)
ReturnOn(h, t) == h.pattern[(t % 2) + 1]

\* pd.concat([asset_returns, market_returns], axis=1).dropna(): the days both have
AlignedDays(a, m) == ReturnDays(a) \cap ReturnDays(m)

\* floor and six decimals of num/den, rounded half even, in units of 1e-6; den > 0
RECURSIVE Decimals(_, _, _, _)
Decimals(acc, r, den, k) ==
    IF k = 0
    THEN IF 2 * r < den THEN acc
         ELSE IF 2 * r > den THEN acc + 1
         ELSE IF acc % 2 = 0 THEN acc ELSE acc + 1
    ELSE Decimals(acc * 10 + ((r * 10) \div den), (r * 10) % den, den, k - 1)

RoundedQuotient(num, den) == Decimals(num \div den, num % den, den, 6)

BetaError(reason) ==
    [outcome |-> "raise", error |-> "CalculationError",
     calculation_type |-> "beta", reason |-> reason]

\* CalculateBeta with the threshold test off by one (49 observations pass)
CalculateBetaOffByOne(lib, symbol) ==
    LET a == lib.asset[symbol]
        m == lib.market
        days == AlignedDays(a, m)
        n == Cardinality(days)
        sa == SumOver([t \in days |-> ReturnOn(a, t)], days)
        sm == SumOver([t \in days |-> ReturnOn(m, t)], days)
        sam == SumOver([t \in days |-> ReturnOn(a, t) * ReturnOn(m, t)], days)
        smm == SumOver([t \in days |-> ReturnOn(m, t) * ReturnOn(m, t)], days)
        covNum == n * sam - sa * sm
        varNum == n * smm - sm * sm
    IN  IF lib.status = "missing" THEN [outcome |-> "return", value |-> 1000000]
        ELSE IF lib.status = "error" THEN BetaError("failed")
        ELSE IF a.rows = 0 \/ m.rows = 0 THEN BetaError("insufficient_data")
        ELSE IF n < MinObservations - 1 THEN BetaError("insufficient_points")
        ELSE IF varNum = 0 THEN BetaError("zero_variance")
        ELSE [outcome |-> "return",
              value |-> RoundedQuotient(n * covNum, (n - 1) * varNum)]

\* calculate_beta(asset_symbol) against the library state lib:
\*   lib.status   missing: the import raises ImportError; error: a download raises
\*   lib.asset    the history the download returns for each symbol
\*   lib.market   the history the download returns for the market symbol
CalculateBeta(lib, symbol) ==
    LET a == lib.asset[symbol]
        m == lib.market
        days == AlignedDays(a, m)
        n == Cardinality(days)
        sa == SumOver([t \in days |-> ReturnOn(a, t)], days)
        sm == SumOver([t \in days |-> ReturnOn(m, t)], days)
        sam == SumOver([t \in days |-> ReturnOn(a, t) * ReturnOn(m, t)], days)
        smm == SumOver([t \in days |-> ReturnOn(m, t) * ReturnOn(m, t)], days)
        \* np.cov(...)[0][1] = covNum / (n * (n - 1)); np.var(...) = varNum / (n * n)
        covNum == n * sam - sa * sm
        varNum == n * smm - sm * sm
    IN  IF lib.status = "missing" THEN [outcome |-> "return", value |-> 1000000]
        ELSE IF lib.status = "error" THEN BetaError("failed")
        ELSE IF a.rows = 0 \/ m.rows = 0 THEN BetaError("insufficient_data")
        ELSE IF n < MinObservations THEN BetaError("insufficient_points")
        ELSE IF varNum = 0 THEN BetaError("zero_variance")
        ELSE [outcome |-> "return",
              value |-> RoundedQuotient(n * covNum, (n - 1) * varNum)]

\* asset.get('beta') or self.calculate_beta(symbol), with 1.0 for a holding
\* without a symbol and for a calculate_beta that raises
HoldingBeta(lib, asset) ==
    IF asset.symbol = "" THEN 1000000
    ELSE IF asset.beta # <<>> /\ asset.beta[1] # 0 THEN asset.beta[1]
    ELSE LET b == CalculateBeta(lib, asset.symbol)
         IN  IF b.outcome = "raise" THEN 1000000 ELSE b.value

\* the holdings the loop of calculate_portfolio_beta does not skip
CountedHolding(asset) ==
    asset.asset_type \in Tradeable /\ asset.current_value > 0

RECURSIVE WeightedBetaSum(_, _)
WeightedBetaSum(lib, assets) ==
    IF assets = <<>> THEN 0
    ELSE (IF CountedHolding(Head(assets))
          THEN Head(assets).current_value * HoldingBeta(lib, Head(assets))
          ELSE 0)
         + WeightedBetaSum(lib, Tail(assets))

\* calculate_portfolio_beta(portfolio_data): every weight is the holding's
\* value over portfolio_data['total_value']
CalculatePortfolioBeta(lib, pd) ==
    IF pd.total_value = 0 THEN [outcome |-> "return", value |-> 1000000]
    ELSE [outcome |-> "return",
          value |-> RoundHalfEven(WeightedBetaSum(lib, pd.assets), pd.total_value)]

\* _get_market_expected_return: 0.10 when the library is missing, the download
\* raises or comes back empty; otherwise the annualised mean of the ten-year
\* history, `annual`, rounded to four decimals (kept in units of 1e-7)
MarketExpectedReturn(lib, annual) ==
    IF lib.status # "ok" \/ lib.market.rows = 0 THEN 1000000
    ELSE RoundHalfEven(annual, 1000) * 1000

\* _determine_valuation(alpha), alpha in units of 1e-6
DetermineValuation(alpha) ==
    IF alpha > 50000 THEN "significantly_undervalued"
    ELSE IF alpha > 20000 THEN "undervalued"
    ELSE IF alpha < -50000 THEN "significantly_overvalued"
    ELSE IF alpha < -20000 THEN "overvalued"
    ELSE "fairly_valued"

\* _generate_recommendation(alpha, beta), alpha in units of 1e-6
GenerateRecommendation(alpha, beta) ==
    IF alpha > 50000 THEN "strong_buy"
    ELSE IF alpha > 20000 THEN "buy"
    ELSE IF alpha < -50000 THEN "strong_sell"
    ELSE IF alpha < -20000 THEN "sell"
    ELSE "hold"

\* the holdings the loop of analyze_asset_pricing does not skip
AnalysedHolding(asset) ==
    asset.asset_type \in Tradeable /\ asset.symbol # ""

\* the body of the loop of analyze_asset_pricing for one holding: the entry it
\* appends, from the try block or from its except clause; the holdings of the
\* model carry no return_1y, so the actual return is 0; beta, expected_return
\* and alpha are in units of 1e-4
AssetPricingEntry(lib, rf, mr, asset) ==
    LET b == IF asset.beta # <<>> THEN [outcome |-> "return", value |-> asset.beta[1]]
             ELSE CalculateBeta(lib, asset.symbol)
        er == CalculateExpectedReturn(rf, b.value, mr).value
        alpha == 0 - er
    IN  IF b.outcome = "raise"
        THEN [symbol |-> asset.symbol, error |-> b.reason]
        ELSE [symbol |-> asset.symbol,
              asset_type |-> asset.asset_type,
              current_value |-> asset.current_value,
              beta |-> RoundHalfEven(b.value, 100),
              expected_return |-> RoundHalfEven(er, 100),
              actual_return |-> 0,
              alpha |-> RoundHalfEven(alpha, 100),
              valuation |-> DetermineValuation(alpha),
              recommendation |-> GenerateRecommendation(alpha, b.value)]

\* AnalysisResults with one try block around the whole loop: the first failing
\* holding ends the batch
RECURSIVE AnalysisResultsAborting(_, _, _, _)
AnalysisResultsAborting(lib, rf, mr, assets) ==
    IF assets = <<>> THEN <<>>
    ELSE IF ~AnalysedHolding(Head(assets))
    THEN AnalysisResultsAborting(lib, rf, mr, Tail(assets))
    ELSE LET e == AssetPricingEntry(lib, rf, mr, Head(assets))
         IN  IF "error" \in DOMAIN e THEN <<e>>
             ELSE <<e>> \o AnalysisResultsAborting(lib, rf, mr, Tail(assets))

\* the analysis_results list the loop of analyze_asset_pricing builds
RECURSIVE AnalysisResults(_, _, _, _)
AnalysisResults(lib, rf, mr, assets) ==
    IF assets = <<>> THEN <<>>
    ELSE IF ~AnalysedHolding(Head(assets))
    THEN AnalysisResults(lib, rf, mr, Tail(assets))
    ELSE <<AssetPricingEntry(lib, rf, mr, Head(assets))>>
         \o AnalysisResults(lib, rf, mr, Tail(assets))

\* analyze_asset_pricing(portfolio_data) on a service whose risk_free_rate is rf
AnalyzeAssetPricing(lib, rf, pd, annual) ==
    [outcome |-> "return",
     results |-> AnalysisResults(lib, rf, MarketExpectedReturn(lib, annual), pd.assets)]

----------------------------------------------------------------------------
(* The calls, as actions.                                                  *)

NoCall == [op |-> "none"]
NoResult == [outcome |-> "none"]

Confidences == {90, 95}
Horizons == 1..MaxHorizon
Methods == {"historical", "parametric", "monte_carlo", "bootstrap"}
\* values the percentile of a random normal sample can take
SimulatedPercentiles == {-300000, 200000}
\* values, in cents, the median of the simulated end values can take
SimulatedMedians == {9000, 11000}
Years == {1, 5}

calculate_var(c, h, m, draw) ==
    LET o == CalculateVarOutcome(portfolio_data, returns_cache, yf, c, h, m, draw)
    IN  /\ risk_call' = [op |-> "calculate_var", confidence_level |-> c,
                         time_horizon |-> h, method |-> m]
        /\ risk_result' = o.result
        /\ returns_cache' = o.cache
        /\ UNCHANGED <<portfolio_data, yf, capmVars, agentVars>>

\* calculate_cvar that prunes the snapshot it holds to the holdings it weights
calculate_cvar_pruning(c, h) ==
    LET o == CalculateCvarOutcome(portfolio_data, returns_cache, yf, c, h)
    IN  /\ risk_call' = [op |-> "calculate_cvar", confidence_level |-> c,
                         time_horizon |-> h]
        /\ risk_result' = o.result
        /\ returns_cache' = o.cache
        /\ portfolio_data' =
              [portfolio_data EXCEPT !.assets =
                  SelectSeq(@, LAMBDA a : a.symbol # "" /\ a.asset_type \in Tradeable)]
        /\ UNCHANGED <<yf, capmVars, agentVars>>

calculate_cvar(c, h) ==
    LET o == CalculateCvarOutcome(portfolio_data, returns_cache, yf, c, h)
    IN  /\ risk_call' = [op |-> "calculate_cvar", confidence_level |-> c,
                         time_horizon |-> h]
        /\ risk_result' = o.result
        /\ returns_cache' = o.cache
        /\ UNCHANGED <<portfolio_data, yf, capmVars, agentVars>>

monte_carlo_simulation(years, sims, median) ==
    LET o == MonteCarloSimulationOutcome(portfolio_data, returns_cache, yf,
                                         years, sims, median)
    IN  /\ risk_call' = [op |-> "monte_carlo_simulation",
                         time_horizon_years |-> years, simulations |-> sims]
        /\ risk_result' = o.result
        /\ returns_cache' = o.cache
        /\ UNCHANGED <<portfolio_data, yf, capmVars, agentVars>>

get_monte_carlo(years, sims, median) ==
    /\ risk_call' = [op |-> "get_monte_carlo", years |-> years, simulations |-> sims]
    /\ risk_result' = GetMonteCarloResponse(portfolio_data, yf, years, sims, median)
    /\ UNCHANGED <<portfolio_data, returns_cache, yf, capmVars, agentVars>>

\* the scenario dicts stress_test is called with; <<>> is an empty dict
ScenarioSets ==
    { DefaultScenarios,
      <<>>,
      << Scenario("equity_crash", -50, 0, 0) >>,
      << Scenario("mild", -10, 0, -5), Scenario("severe", -40, 0, -20),
         Scenario("severe_again", -40, 0, -20), Scenario("rally", 10, 0, 5) >> }

stress_test(scenarios) ==
    /\ risk_call' = [op |-> "stress_test", scenarios |-> scenarios]
    /\ risk_result' = StressTestOutcome(portfolio_data, scenarios)
    /\ UNCHANGED <<portfolio_data, returns_cache, yf, capmVars, agentVars>>

calculate_max_drawdown ==
    LET o == MaxDrawdownOutcome(portfolio_data, returns_cache, yf)
    IN  /\ risk_call' = [op |-> "calculate_max_drawdown"]
        /\ risk_result' = o.result
        /\ returns_cache' = o.cache
        /\ UNCHANGED <<portfolio_data, yf, capmVars, agentVars>>

correlation_analysis ==
    /\ risk_call' = [op |-> "correlation_analysis"]
    /\ risk_result' = CorrelationAnalysisOutcome(portfolio_data, yf)
    /\ UNCHANGED <<portfolio_data, returns_cache, yf, capmVars, agentVars>>

\* the snapshots the owner of an instance puts in place of the one it holds
ReplacementSnapshots ==
    { Snapshot(<< Asset("AAA", "stock", 60, <<1200000>>) >>, 0),
      Snapshot(<< Asset("AAA", "stock", 60, <<1200000>>),
                  Asset("BBB", "etf", 40, <<800000>>) >>, 0) }

\* service.portfolio_data = pd: the snapshot is a plain attribute, and nothing
\* else of the instance is touched when it is replaced or modified
set_portfolio_data(pd) ==
    /\ pd # portfolio_data
    /\ portfolio_data' = pd
    /\ risk_call' = [op |-> "set_portfolio_data"]
    /\ risk_result' = NoResult
    /\ UNCHANGED <<returns_cache, yf, capmVars, agentVars>>

InitCapmIdle ==
    /\ ctor_rf = <<>>
    /\ risk_free_rate = InitRiskFreeRate(<<>>)
    /\ capm_call = NoCall
    /\ capm_result = NoResult

\* no agent manager at work: an empty task table, nothing cached or running
InitAgentIdle ==
    /\ agent_tasks = <<>>
    /\ queue_attempts = <<>>
    /\ agents = {}
    /\ failing_agents = {}
    /\ agent_call = NoCall
    /\ agent_result = NoResult
    /\ analyze_log = <<>>
    /\ running = [pc |-> "idle"]
    /\ queue = [pc |-> "idle", pending_tasks |-> <<>>]
    /\ cancel_result = <<>>

InitRisk ==
    /\ portfolio_data \in RiskSnapshots
    /\ returns_cache = <<>>
    /\ yf \in FrameStates
    /\ risk_call = NoCall
    /\ risk_result = NoResult
    /\ InitCapmIdle
    /\ InitAgentIdle

NextRisk ==
    \/ \E c \in Confidences, h \in Horizons, m \in Methods :
          \E draw \in IF m = "monte_carlo" THEN SimulatedPercentiles ELSE {0} :
              calculate_var(c, h, m, draw)
    \/ \E c \in Confidences, h \in Horizons : calculate_cvar(c, h)
    \/ \E y \in Years, median \in SimulatedMedians :
          monte_carlo_simulation(y, 10000, median)
    \/ \E y \in Years, sims \in {10000, 200000}, median \in SimulatedMedians :
          get_monte_carlo(y, sims, median)
    \/ \E scenarios \in ScenarioSets : stress_test(scenarios)
    \/ correlation_analysis
    \/ calculate_max_drawdown
    \/ \E pd \in ReplacementSnapshots : set_portfolio_data(pd)

SpecRisk == InitRisk /\ [][NextRisk]_vars

----------------------------------------------------------------------------
(* CAPMService calls.                                                      *)

\* the risk_free_rate argument of the constructor: absent, 0, 0.02, 0.03
CtorRates == { <<>>, <<0>>, <<200000>>, <<300000>> }
\* betas and market returns calculate_expected_return is called with
Betas == {-500000, 0, 500000, 1000000, 1100000, 2000000}
MarketReturns == {100000, 200004, 300000, 800000}

AssetHistories ==
    { History(0, 0, <<0, 0>>),
      History(0, 1, <<0, 0>>),
      History(2, MinObservations, <<2, -1>>),
      History(0, MinObservations + 1, <<2, -1>>),
      History(0, MinObservations + 2, <<3, 1>>) }

MarketHistories ==
    { History(0, 0, <<0, 0>>),
      History(1, 20, <<0, 0>>),
      History(0, MinObservations + 2, <<0, 0>>),
      History(0, MinObservations + 2, <<1, -1>>),
      History(0, MinObservations + 1, <<2, 1>>) }

HistoryStates ==
    { [status |-> "missing", asset |-> [s \in Symbols |-> History(0, 0, <<0, 0>>)],
       market |-> History(0, 0, <<0, 0>>)],
      [status |-> "error", asset |-> [s \in Symbols |-> History(0, 0, <<0, 0>>)],
       market |-> History(0, 0, <<0, 0>>)] }
    \cup { [status |-> "ok",
            asset |-> [s \in Symbols |->
                         IF s = "AAA" THEN a
                         ELSE History(0, MinObservations + 2, <<-1, 1>>)],
            market |-> m] : a \in AssetHistories, m \in MarketHistories }

calculate_expected_return(bc, beta, mc, rm) ==
    /\ capm_call' = [op |-> "calculate_expected_return",
                     beta_class |-> bc, beta |-> beta,
                     market_return_class |-> mc, market_return |-> rm]
    /\ capm_result' = CalculateExpectedReturnFloat(risk_free_rate, bc, beta, mc, rm)
    /\ UNCHANGED <<ctor_rf, risk_free_rate, riskVars, agentVars>>

calculate_beta(symbol) ==
    /\ capm_call' = [op |-> "calculate_beta", asset_symbol |-> symbol]
    /\ capm_result' = CalculateBeta(yf, symbol)
    /\ UNCHANGED <<ctor_rf, risk_free_rate, riskVars, agentVars>>

calculate_portfolio_beta(pd) ==
    /\ capm_call' = [op |-> "calculate_portfolio_beta", portfolio_data |-> pd]
    /\ capm_result' = CalculatePortfolioBeta(yf, pd)
    /\ UNCHANGED <<ctor_rf, risk_free_rate, riskVars, agentVars>>

\* annualised means the ten-year market history can have: 6%, 8.004%
AnnualMarketReturns == {600000, 800400}

analyze_asset_pricing(pd, annual) ==
    /\ capm_call' = [op |-> "analyze_asset_pricing", portfolio_data |-> pd,
                     annual_market_return |-> annual]
    /\ capm_result' = AnalyzeAssetPricing(yf, risk_free_rate, pd, annual)
    /\ UNCHANGED <<ctor_rf, risk_free_rate, riskVars, agentVars>>

InitCapm ==
    /\ ctor_rf \in CtorRates
    /\ risk_free_rate = InitRiskFreeRate(ctor_rf)
    /\ capm_call = NoCall
    /\ capm_result = NoResult
    /\ yf \in HistoryStates
    /\ portfolio_data \in Snapshots
    /\ returns_cache = <<>>
    /\ risk_call = NoCall
    /\ risk_result = NoResult
    /\ InitAgentIdle

NextCapm ==
    \/ \E bc \in FloatClasses, mc \in FloatClasses :
          \E beta \in IF bc = "finite" THEN Betas ELSE {0},
             rm \in IF mc = "finite" THEN MarketReturns ELSE {0} :
              calculate_expected_return(bc, beta, mc, rm)
    \/ \E symbol \in Symbols : calculate_beta(symbol)
    \/ calculate_portfolio_beta(portfolio_data)
    \/ \E annual \in AnnualMarketReturns :
          analyze_asset_pricing(portfolio_data, annual)

SpecCapm == InitCapm /\ [][NextCapm]_vars

----------------------------------------------------------------------------
(* Properties of RiskService, checked under SpecRisk.                      *)

KnownMethods == {"historical", "parametric", "monte_carlo"}

\* the series the instance works on in the current state
CurrentSeries == GetPortfolioReturns(portfolio_data, returns_cache, yf).series

\* C1: the cvar_percentage calculate_cvar returns is never above the VaR at
\* the same confidence level and horizon: neither above the var_percentage of
\* the same result, nor above the var_percentage of the historical
\* calculate_var on the same instance.
C1_CvarAtMostVar ==
    risk_call.op = "calculate_cvar" =>
        /\ "var_percentage" \in DOMAIN risk_result =>
              risk_result.cvar_percentage <= risk_result.var_percentage
        /\ risk_result.cvar_percentage <=
              CalculateVarOutcome(portfolio_data, returns_cache, yf,
                                  risk_call.confidence_level, risk_call.time_horizon,
                                  "historical", 0).result.var_percentage

\* C1 witness: a CVaR over a non-empty series whose tail mean lies strictly
\* below the interpolated VaR threshold.
C1_Witness ==
    /\ risk_call.op = "calculate_cvar"
    /\ Len(CurrentSeries) > 1
    /\ "var_percentage" \in DOMAIN risk_result
    /\ risk_result.cvar_percentage < risk_result.var_percentage
    /\ risk_result.var_percentage < 0

\* C2 (as claimed): every result of calculate_var has var_percentage <= 0 and
\* var_absolute <= 0.
C2_VarNeverPositive ==
    (risk_call.op = "calculate_var" /\ risk_result.outcome = "return") =>
        /\ risk_result.var_percentage <= 0
        /\ risk_result.var_absolute <= 0

\* C3: with a zero total value or an empty return series, calculate_var with
\* any of the three methods returns var_absolute = 0 and var_percentage = 0 and
\* raises nothing.
C3_DegenerateVarIsZero ==
    (/\ risk_call.op = "calculate_var"
     /\ risk_call.method \in KnownMethods
     /\ (portfolio_data.total_value = 0 \/ CurrentSeries = <<>>)) =>
        /\ risk_result.outcome = "return"
        /\ risk_result.var_absolute = 0
        /\ risk_result.var_percentage = 0

\* C3 witness: a Monte Carlo VaR on a portfolio that has value but no return
\* series.
C3_Witness ==
    /\ risk_call.op = "calculate_var"
    /\ risk_call.method = "monte_carlo"
    /\ portfolio_data.total_value > 0
    /\ portfolio_data.assets # <<>>
    /\ CurrentSeries = <<>>
    /\ risk_result.outcome = "return"
    /\ risk_result.var_absolute = 0

\* C4 (as claimed): on a zero-valued portfolio monte_carlo_simulation raises
\* ZeroPortfolioValue, the endpoint answers with an error, and calculate_var
\* returns the zero result.
C4_ZeroValueMonteCarloFails ==
    portfolio_data.total_value = 0 =>
        /\ risk_call.op = "monte_carlo_simulation" =>
              (risk_result.outcome = "raise" /\ risk_result.error = "ZeroPortfolioValue")
        /\ risk_call.op = "get_monte_carlo" => risk_result.status = "error"
        /\ (risk_call.op = "calculate_var" /\ risk_call.method \in KnownMethods) =>
              (risk_result.outcome = "return" /\ risk_result.var_absolute = 0
               /\ risk_result.var_percentage = 0)

\* C5 (as claimed): calculate_var with a method other than the three known
\* ones raises, whatever the snapshot.
C5_UnknownMethodRaises ==
    (risk_call.op = "calculate_var" /\ risk_call.method \notin KnownMethods) =>
        /\ risk_result.outcome = "raise"
        /\ risk_result.error = "CalculationError"

\* C14 (as claimed): a VaR or CVaR call works on the return series built from
\* the snapshot the instance holds now: its result is the one an instance
\* without a cached series returns for that snapshot (historical and
\* parametric VaR, and CVaR, which draw nothing at random).
C14_SeriesFollowsSnapshot ==
    /\ (risk_call.op = "calculate_var"
        /\ risk_call.method \in {"historical", "parametric"}) =>
          risk_result = CalculateVarOutcome(portfolio_data, <<>>, yf,
                                            risk_call.confidence_level,
                                            risk_call.time_horizon,
                                            risk_call.method, 0).result
    /\ risk_call.op = "calculate_cvar" =>
          risk_result = CalculateCvarOutcome(portfolio_data, <<>>, yf,
                                             risk_call.confidence_level,
                                             risk_call.time_horizon).result

RiskMethods == {"calculate_var", "calculate_cvar", "monte_carlo_simulation"}

\* C15 (as claimed): a RiskService method called again with the same
\* arguments on the same snapshot and the same price histories returns the
\* result it returned before.
C15_RepeatedCallSameResult ==
    [][(/\ risk_call.op \in RiskMethods
        /\ risk_call' = risk_call
        /\ portfolio_data' = portfolio_data) => risk_result' = risk_result]_vars

WeightingTotal(pd) == SumValuesOf(pd.assets, TradeableSymbols(pd.assets))

\* C17 (as claimed): when the holdings that enter the weighting have total
\* current value zero, the series VaR and CVaR calls work on is empty.
C17_ZeroWeightTotalGivesEmptySeries ==
    (risk_call.op \in {"calculate_var", "calculate_cvar"}
     /\ WeightingTotal(portfolio_data) = 0) =>
        CurrentSeries = <<>>

\* the value of the snapshot's holdings in each asset class of the scenarios
EquityValue(pd) ==
    SumOfType(pd.assets, "stock") + SumOfType(pd.assets, "etf")
        + SumOfType(pd.assets, "mutual_fund")
BondValue(pd) == SumOfType(pd.assets, "bond")

\* C18 (as claimed): for every scenario the stressed value is the portfolio
\* value times (1 + impact), the impact being the weighted sum of the shocks
\* of the asset classes (equity for stock, etf and mutual-fund value, bonds
\* for bond value, real_estate for property), whatever the buckets are named;
\* a 100%-equity portfolio under an equity shock of -50% loses half its value.
C18_StressUsesAssetClassShocks ==
    (risk_call.op = "stress_test" /\ risk_result.outcome = "return"
     /\ portfolio_data.total_value > 0) =>
        \A i \in 1..Len(risk_call.scenarios) :
            LET sc == risk_call.scenarios[i]
                pv == portfolio_data.total_value
                shocked == EquityValue(portfolio_data) * sc.equity
                           + BondValue(portfolio_data) * sc.bonds
                           + portfolio_data.real_estate * sc.real_estate
                stressed == RoundHalfEven(pv * (100 * pv + shocked), pv)
            IN  /\ risk_result.scenarios[i].stressed_value = stressed
                /\ risk_result.scenarios[i].loss = 100 * pv - stressed

\* C19: worst_case names a scenario whose stressed value no other scenario
\* undercuts, and every scenario before it in iteration order has a strictly
\* larger stressed value.
C19_WorstCaseIsFirstMinimum ==
    (risk_call.op = "stress_test" /\ risk_result.outcome = "return") =>
        \E i \in 1..Len(risk_result.scenarios) :
            /\ risk_result.scenarios[i].name = risk_result.worst_case
            /\ risk_call.scenarios[i].name = risk_result.worst_case
            /\ \A j \in 1..Len(risk_result.scenarios) :
                  risk_result.scenarios[i].stressed_value
                      <= risk_result.scenarios[j].stressed_value
            /\ \A j \in 1..(i - 1) :
                  risk_result.scenarios[j].stressed_value
                      > risk_result.scenarios[i].stressed_value

\* C19 witness: two scenarios tie for the smallest stressed value, below the
\* portfolio value, and the earlier one is reported.
C19_Witness ==
    /\ risk_call.op = "stress_test"
    /\ risk_result.outcome = "return"
    /\ risk_result.worst_case = "severe"
    /\ risk_result.scenarios[2].stressed_value = risk_result.scenarios[3].stressed_value
    /\ risk_result.scenarios[2].stressed_value < risk_result.scenarios[1].stressed_value
    /\ risk_result.scenarios[2].stressed_value < 100 * portfolio_data.total_value

\* C20: correlation_analysis never raises; with fewer than two tradeable
\* holdings that have symbols, or when the price data cannot be retrieved
\* (library missing, download failing or empty), it returns an error entry
\* and no matrix; otherwise it returns the matrix with the pairs, the average
\* correlation and the diversification score.
C20_CorrelationNeverRaises ==
    risk_call.op = "correlation_analysis" =>
        LET notApplicable ==
                \/ Len(SymbolList(portfolio_data.assets)) < 2
                \/ yf.status # "ok"
                \/ yf.empty
        IN  /\ risk_result.outcome = "return"
            /\ notApplicable =>
                  /\ "error" \in DOMAIN risk_result
                  /\ "matrix" \notin DOMAIN risk_result
            /\ ~notApplicable =>
                  /\ "error" \notin DOMAIN risk_result
                  /\ {"matrix", "pairs", "average_correlation",
                       "diversification_score"} \subseteq DOMAIN risk_result
                  /\ LET n == Len(SymbolList(portfolio_data.assets))
                     IN  2 * Len(risk_result.pairs) = n * (n - 1)

\* C20 witness: a matrix for two symbols whose returns move against each other.
C20_Witness ==
    /\ risk_call.op = "correlation_analysis"
    /\ "pairs" \in DOMAIN risk_result
    /\ risk_result.pairs[1].correlation = <<-10000>>
    /\ risk_result.pairs[1].strength = "very_strong"
    /\ risk_result.diversification_score = <<0>>

\* C21: calculate_max_drawdown returns max_drawdown <= 0; for a non-empty
\* series max_drawdown <= current_drawdown <= 0 and max_drawdown is the
\* smallest of the drawdowns (cum(t) - runningMax(t)) / runningMax(t); for an
\* empty series max_drawdown is 0.
C21_DrawdownNeverPositive ==
    risk_call.op = "calculate_max_drawdown" =>
        /\ risk_result.outcome = "return"
        /\ risk_result.max_drawdown <= 0
        /\ CurrentSeries = <<>> => risk_result.max_drawdown = 0
        /\ "current_drawdown" \in DOMAIN risk_result =>
              LET series == CurrentSeries
                  cum == CumulativeReturns(series, 10000)
                  dd == [t \in 1..Len(series) |->
                            RoundHalfEven((cum[t] - RunningMax(cum)[t]) * 100000,
                                          RunningMax(cum)[t]) * 10]
              IN  /\ risk_result.max_drawdown <= risk_result.current_drawdown
                  /\ risk_result.current_drawdown <= 0
                  /\ \E t \in 1..Len(series) : risk_result.max_drawdown = dd[t]
                  /\ \A t \in 1..Len(series) : risk_result.max_drawdown <= dd[t]
        /\ (CurrentSeries # <<>>) <=> ("current_drawdown" \in DOMAIN risk_result)

\* C21 witness: a series that fell and has since climbed to a new high.
C21_Witness ==
    /\ risk_call.op = "calculate_max_drawdown"
    /\ "current_drawdown" \in DOMAIN risk_result
    /\ risk_result.max_drawdown < risk_result.current_drawdown
    /\ risk_result.current_drawdown = 0

\* C22 (as claimed): for the historical and the parametric method the
\* absolute var_percentage at horizon t is at least the absolute
\* var_percentage at horizon 1, same series and confidence level.
C22_VarGrowsWithHorizon ==
    (risk_call.op = "calculate_var" /\ risk_result.outcome = "return"
     /\ risk_call.method \in {"historical", "parametric"}) =>
        Abs(risk_result.var_percentage) >=
            Abs(CalculateVarOutcome(portfolio_data, returns_cache, yf,
                                    risk_call.confidence_level, 1,
                                    risk_call.method, 0).result.var_percentage)

\* C23 (as claimed): every result of calculate_var, calculate_cvar and
\* monte_carlo_simulation, the zero and degenerate ones included, carries the
\* parameters of the call as they were passed.
C23_ResultsEchoParameters ==
    /\ (risk_call.op = "calculate_var" /\ risk_result.outcome = "return") =>
          /\ {"confidence_level", "time_horizon_days", "method"} \subseteq DOMAIN risk_result
          /\ risk_result.confidence_level = risk_call.confidence_level
          /\ risk_result.time_horizon_days = risk_call.time_horizon
          /\ risk_result.method = risk_call.method
    /\ risk_call.op = "calculate_cvar" =>
          /\ {"confidence_level", "time_horizon_days"} \subseteq DOMAIN risk_result
          /\ risk_result.confidence_level = risk_call.confidence_level
          /\ risk_result.time_horizon_days = risk_call.time_horizon
    /\ risk_call.op = "monte_carlo_simulation" =>
          /\ {"time_horizon_years", "simulations"} \subseteq DOMAIN risk_result
          /\ risk_result.time_horizon_years = risk_call.time_horizon_years
          /\ risk_result.simulations = risk_call.simulations

----------------------------------------------------------------------------
(* Properties of CAPMService, checked under SpecCapm.                      *)

\* the arguments of the current calculate_expected_return call are finite floats
FiniteCall ==
    capm_call.beta_class = "finite" /\ capm_call.market_return_class = "finite"

\* C6 (as claimed): for a service constructed with risk-free rate rf,
\* calculate_expected_return(beta, rm) is rf + beta * (rm - rf) rounded to six
\* decimals, also for rf = 0.
C6_ExpectedReturnUsesGivenRate ==
    (capm_call.op = "calculate_expected_return" /\ ctor_rf # <<>>
     /\ FiniteCall) =>
        capm_result.value = RoundedCapm(ctor_rf[1], capm_call.beta, capm_call.market_return)

\* C7 (as claimed): for rm above the risk-free rate the returned value is
\* strictly above rm for beta > 1 and strictly below rm for beta < 1.
C7_StrictlyMonotone ==
    (capm_call.op = "calculate_expected_return" /\ FiniteCall
     /\ capm_call.market_return > risk_free_rate) =>
        /\ capm_call.beta > 1000000 => capm_result.value * 10 > capm_call.market_return
        /\ capm_call.beta < 1000000 => capm_result.value * 10 < capm_call.market_return

\* C7 (amended): for rm above the service's risk-free rate the returned value
\* is at least rm rounded to six decimals for beta > 1 and at most rm rounded
\* to six decimals for beta < 1; it is strictly above (below) rm whenever
\* |beta - 1| * (rm - rf) is at least 1e-6.
C7_MonotoneUpToRounding ==
    (capm_call.op = "calculate_expected_return" /\ FiniteCall
     /\ capm_call.market_return > risk_free_rate) =>
        LET rm == capm_call.market_return
            x == rm - risk_free_rate
            d == (capm_call.beta - 1000000) \div 1000
        IN  /\ capm_call.beta > 1000000 => capm_result.value >= RoundHalfEven(rm, 10)
            /\ capm_call.beta < 1000000 => capm_result.value <= RoundHalfEven(rm, 10)
            /\ d * x >= 10000 => capm_result.value * 10 > rm
            /\ d * x <= -10000 => capm_result.value * 10 < rm

\* C7 witness: a beta above 1 whose premium over rm is lost in the rounding.
C7_Witness ==
    /\ capm_call.op = "calculate_expected_return"
    /\ FiniteCall
    /\ capm_call.market_return > risk_free_rate
    /\ capm_call.beta > 1000000
    /\ capm_result.value = RoundHalfEven(capm_call.market_return, 10)

\* the holdings calculate_portfolio_beta weights and the betas it takes for them
CountedBetas(lib, pd) ==
    { HoldingBeta(lib, pd.assets[i]) :
        i \in { j \in 1..Len(pd.assets) : CountedHolding(pd.assets[j]) } }

\* C8 (as claimed): with at least one tradeable holding of positive value, the
\* portfolio beta lies within [min - eps, max + eps] of the betas of those
\* holdings, whatever else the snapshot holds (eps is 1e-6 here).
C8_PortfolioBetaWithinBounds ==
    (capm_call.op = "calculate_portfolio_beta"
     /\ CountedBetas(yf, capm_call.portfolio_data) # {}) =>
        LET betas == CountedBetas(yf, capm_call.portfolio_data)
        IN  /\ \E b \in betas : b - 1 <= capm_result.value
            /\ \E b \in betas : capm_result.value <= b + 1

\* C9 (as claimed): when no tradeable holding has a positive value, the
\* portfolio beta is 1.0, also when total_value is positive.
C9_NoTradeableValueGivesOne ==
    (capm_call.op = "calculate_portfolio_beta"
     /\ CountedBetas(yf, capm_call.portfolio_data) = {}) =>
        capm_result.value = 1000000

\* the aligned observations calculate_beta has for the symbol, and whether the
\* market returns among them are all equal (variance exactly zero)
AlignedCount(lib, symbol) == Cardinality(AlignedDays(lib.asset[symbol], lib.market))
MarketVarianceZero(lib, symbol) ==
    \A s, t \in AlignedDays(lib.asset[symbol], lib.market) :
        ReturnOn(lib.market, s) = ReturnOn(lib.market, t)

\* C10: when the downloads return, calculate_beta raises an insufficient-data
\* CalculationError whenever fewer than 50 aligned observations are available,
\* and a zero-variance CalculationError whenever 50 or more are available and
\* the market-return variance is exactly zero; in neither case does it return
\* a beta.
C10_BetaEdgeCasesRaise ==
    (capm_call.op = "calculate_beta" /\ yf.status = "ok") =>
        LET n == AlignedCount(yf, capm_call.asset_symbol)
            flat == MarketVarianceZero(yf, capm_call.asset_symbol)
        IN  /\ n < MinObservations =>
                /\ capm_result.outcome = "raise"
                /\ capm_result.error = "CalculationError"
                /\ capm_result.reason \in {"insufficient_data", "insufficient_points"}
            /\ (n >= MinObservations /\ flat) =>
                /\ capm_result.outcome = "raise"
                /\ capm_result.error = "CalculationError"
                /\ capm_result.reason = "zero_variance"
            /\ (n >= MinObservations /\ ~flat) => capm_result.outcome = "return"

\* C10 witness: 50 or more aligned observations of a flat market.
C10_Witness ==
    /\ capm_call.op = "calculate_beta"
    /\ yf.status = "ok"
    /\ AlignedCount(yf, capm_call.asset_symbol) >= MinObservations
    /\ MarketVarianceZero(yf, capm_call.asset_symbol)
    /\ capm_result.outcome = "raise"

\* whether the provider is unavailable to calculate_beta: the library is
\* missing, the download raises, or no price row comes back for the symbol or
\* for the benchmark
ProviderUnavailable(lib, symbol) ==
    \/ lib.status \in {"missing", "error"}
    \/ lib.asset[symbol].rows = 0
    \/ lib.market.rows = 0

\* C11 (as claimed): whenever the provider is unavailable to calculate_beta,
\* the call returns 1.0 and raises nothing.
C11_UnavailableFallsBackToOne ==
    (capm_call.op = "calculate_beta"
     /\ ProviderUnavailable(yf, capm_call.asset_symbol)) =>
        /\ capm_result.outcome = "return"
        /\ capm_result.value = 1000000

\* C12 (as claimed): calculate_expected_return raises InvalidInput whenever
\* beta or the market return is NaN or infinite, and never returns a
\* non-finite value.
C12_NonFiniteInputRejected ==
    capm_call.op = "calculate_expected_return" =>
        /\ ~FiniteCall =>
              (capm_result.outcome = "raise" /\ capm_result.error = "InvalidInput")
        /\ "non_finite" \notin DOMAIN capm_result

\* the holdings of a list that analyze_asset_pricing analyses, in input order
AnalysedHoldings(assets) == SelectSeq(assets, AnalysedHolding)

\* whether the beta computation fails for a holding
BetaFails(lib, asset) ==
    asset.beta = <<>> /\ CalculateBeta(lib, asset.symbol).outcome = "raise"

\* C13: analyze_asset_pricing returns exactly one entry per tradeable holding
\* with a symbol, in input order; the entry of a holding whose beta
\* computation fails carries the error, and the other entries are the ones
\* the call returns on the snapshot without the failing holdings.
C13_PartialFailureKeepsBatch ==
    capm_call.op = "analyze_asset_pricing" =>
        LET assets == AnalysedHoldings(capm_call.portfolio_data.assets)
            res == capm_result.results
            good == SelectSeq(assets, LAMBDA a : ~BetaFails(yf, a))
            alone == AnalyzeAssetPricing(yf, risk_free_rate,
                                         Snapshot(good, 0),
                                         capm_call.annual_market_return).results
        IN  /\ capm_result.outcome = "return"
            /\ Len(res) = Len(assets)
            /\ \A i \in 1..Len(assets) :
                  /\ res[i].symbol = assets[i].symbol
                  /\ ("error" \in DOMAIN res[i]) <=> BetaFails(yf, assets[i])
            /\ SelectSeq(res, LAMBDA e : "error" \notin DOMAIN e) = alone

\* C13 witness: a batch of two holdings where the first fails and the second
\* is priced.
C13_Witness ==
    /\ capm_call.op = "analyze_asset_pricing"
    /\ Len(capm_result.results) = 2
    /\ "error" \in DOMAIN capm_result.results[1]
    /\ "error" \notin DOMAIN capm_result.results[2]
    /\ capm_result.results[2].symbol = "BBB"

-----------------------------------------------------------------------------
(* AgentTask: the rows of the agent_tasks table and their transitions.     *)

\* most rows the task table holds
MaxTasks == 1

\* AgentTask.max_retries column default
DefaultMaxRetries == 3
\* the retry limit retry_failed_tasks_task filters on
SweepMaxRetries == 3
\* the number of pending rows one process_agent_queue_task run takes
QueueLimit == 10

\* AgentTask.create_task with the column defaults
create_task(agent_type) ==
    [agent_type |-> agent_type, status |-> "pending", retry_count |-> 0,
     max_retries |-> DefaultMaxRetries]

\* AgentTask.can_retry (is_failed and retry_count < max_retries)
can_retry(task) ==
    task.status = "failed" /\ task.retry_count < task.max_retries

\* AgentTask.start
start(task) == [task EXCEPT !.status = "processing"]

\* AgentTask.complete
complete(task) == [task EXCEPT !.status = "completed"]

\* AgentTask.fail
fail(task) == [task EXCEPT !.status = "failed"]

\* AgentTask.retry: the row after the call (unchanged when it returns False)
retry(task) ==
    IF ~can_retry(task) THEN task
    ELSE [task EXCEPT !.status = "pending", !.retry_count = @ + 1]

\* AgentTask.cancel
cancel(task) ==
    IF task.status \notin {"completed", "failed"}
    THEN [task EXCEPT !.status = "cancelled"]
    ELSE task

-----------------------------------------------------------------------------
(* AgentManager.                                                           *)

\* the keys of AgentManager.AGENT_REGISTRY, in the order of the dictionary
AGENT_REGISTRY ==
    <<"cfa", "cfp", "cio", "accountant", "quant_risk", "quant_strategy">>

RegisteredTypes == {AGENT_REGISTRY[i] : i \in DOMAIN AGENT_REGISTRY}

\* get_agent with the instance cached before the type is validated
get_agent_caching_first(cache, agent_type) ==
    IF agent_type \notin RegisteredTypes
    THEN [outcome |-> "raise", exception |-> "ValidationError",
          agents |-> cache \cup {agent_type}]
    ELSE [outcome |-> "return", agents |-> cache \cup {agent_type}]

\* get_agent on a manager whose cache holds the types in cache: it raises
\* for a type outside the registry before it touches the cache, and caches
\* the instance it creates otherwise
get_agent(cache, agent_type) ==
    IF agent_type \notin RegisteredTypes
    THEN [outcome |-> "raise", exception |-> "ValidationError", agents |-> cache]
    ELSE [outcome |-> "return", agents |-> cache \cup {agent_type}]

\* the body of run_analysis between the task bookkeeping: get_agent, then
\* agent.analyze(); every exception leaves as AgentError.  analyzed lists the
\* analyses that were started, agents is the cache afterwards.
RunAnalysis(cache, failing, agent_type) ==
    LET got == get_agent(cache, agent_type)
    IN  IF got.outcome = "raise"
        THEN [outcome |-> "raise", exception |-> "AgentError",
              agents |-> got.agents, analyzed |-> <<>>]
        ELSE IF agent_type \in failing
        THEN [outcome |-> "raise", exception |-> "AgentError",
              agents |-> got.agents, analyzed |-> <<agent_type>>]
        ELSE [outcome |-> "return", response |-> [produced_by |-> agent_type],
              agents |-> got.agents, analyzed |-> <<agent_type>>]

\* what the caller of run_analysis sees of RunAnalysis
Returned(run) ==
    IF run.outcome = "raise"
    THEN [outcome |-> "raise", exception |-> run.exception]
    ELSE [outcome |-> "return", response |-> run.response]

\* RunAllFrom that gives up at the first agent that fails
RECURSIVE RunAllFromAborting(_, _, _, _, _)
RunAllFromAborting(i, cache, failing, results, log) ==
    IF i > Len(AGENT_REGISTRY)
    THEN [results |-> results, agents |-> cache, analyzed |-> log]
    ELSE LET agent_type == AGENT_REGISTRY[i]
             run == RunAnalysis(cache, failing, agent_type)
         IN  IF run.outcome = "raise"
             THEN [results |-> results, agents |-> run.agents,
                   analyzed |-> log \o run.analyzed]
             ELSE RunAllFromAborting(i + 1, run.agents, failing,
                        [t \in DOMAIN results \cup {agent_type} |->
                            IF t = agent_type THEN run.response
                            ELSE results[t]],
                        log \o run.analyzed)

\* run_all_analyses from registry position i on: the results so far as a
\* function from agent type to response, the cache and the analyses started
RECURSIVE RunAllFrom(_, _, _, _, _)
RunAllFrom(i, cache, failing, results, log) ==
    IF i > Len(AGENT_REGISTRY)
    THEN [results |-> results, agents |-> cache, analyzed |-> log]
    ELSE LET agent_type == AGENT_REGISTRY[i]
             run == RunAnalysis(cache, failing, agent_type)
         IN  RunAllFrom(i + 1, run.agents, failing,
                        IF run.outcome = "return"
                        THEN [t \in DOMAIN results \cup {agent_type} |->
                                 IF t = agent_type THEN run.response
                                 ELSE results[t]]
                        ELSE results,
                        log \o run.analyzed)

\* priority_order.get(priority, 4)
priority_order(priority) ==
    CASE priority = "urgent" -> 0
      [] priority = "high" -> 1
      [] priority = "medium" -> 2
      [] priority = "low" -> 3
      [] OTHER -> 4

\* the recommendations the agents named in agent_types hand over, each
\* stamped with its source agent; an agent that cannot be created or whose
\* get_recommendations raises is skipped.  catalog[t] is what agent t
\* recommends.
RECURSIVE CollectFrom(_, _, _, _, _, _)
CollectFrom(i, agent_types, cache, failing, catalog, all) ==
    IF i > Len(agent_types)
    THEN [all_recommendations |-> all, agents |-> cache]
    ELSE LET agent_type == agent_types[i]
             got == get_agent(cache, agent_type)
             recs == catalog[agent_type]
             stamped == [k \in 1..Len(recs) |->
                            [type |-> recs[k].type,
                             priority |-> recs[k].priority,
                             source_agent |-> agent_type]]
         IN  IF got.outcome = "raise" \/ agent_type \in failing
             THEN CollectFrom(i + 1, agent_types, got.agents, failing,
                              catalog, all)
             ELSE CollectFrom(i + 1, agent_types, got.agents, failing,
                              catalog, all \o stamped)

\* the keys of by_type, in the order the dictionary received them
RECURSIVE TypeOrder(_)
TypeOrder(recs) ==
    IF recs = <<>> THEN <<>>
    ELSE LET front == SubSeq(recs, 1, Len(recs) - 1)
             last == recs[Len(recs)]
         IN  IF \E k \in 1..Len(front) : front[k].type = last.type
             THEN TypeOrder(front)
             ELSE Append(TypeOrder(front), last.type)

\* min(recommendations, key=priority_order): the first of the smallest key
HighestPriority(recs) ==
    LET best == CHOOSE k \in 1..Len(recs) :
                    /\ \A j \in 1..Len(recs) :
                          priority_order(recs[k].priority)
                              <= priority_order(recs[j].priority)
                    /\ \A j \in 1..(k - 1) :
                          priority_order(recs[j].priority)
                              > priority_order(recs[k].priority)
    IN  recs[best]

\* _merge_recommendations on a group of two or more
merge_recommendations(recs) ==
    [type |-> recs[1].type,
     priority |-> HighestPriority(recs).priority,
     source_agents |-> {recs[k].source_agent : k \in 1..Len(recs)},
     consensus_count |-> Len(recs)]

\* _consolidate_recommendations: one entry per type, a lone recommendation
\* as it is and a group merged
consolidate_recommendations(recs) ==
    LET types == TypeOrder(recs)
    IN  [k \in 1..Len(types) |->
            LET group == SelectSeq(recs, LAMBDA r : r.type = types[k])
            IN  IF Len(group) = 1 THEN group[1]
                ELSE merge_recommendations(group)]

\* list.sort(key=priority_order): stable, smallest key first
RECURSIVE SortByPriority(_)
SortByPriority(entries) ==
    IF entries = <<>> THEN <<>>
    ELSE LET front == SortByPriority(SubSeq(entries, 1, Len(entries) - 1))
             last == entries[Len(entries)]
             keep == {k \in 1..Len(front) :
                         priority_order(front[k].priority)
                             <= priority_order(last.priority)}
             n == Cardinality(keep)
         IN  SubSeq(front, 1, n) \o <<last>> \o SubSeq(front, n + 1, Len(front))

\* entries[:max_recommendations]
Slice(entries, max_recommendations) ==
    IF max_recommendations >= 0
    THEN SubSeq(entries, 1, IF max_recommendations < Len(entries)
                            THEN max_recommendations ELSE Len(entries))
    ELSE SubSeq(entries, 1, IF Len(entries) + max_recommendations > 0
                            THEN Len(entries) + max_recommendations ELSE 0)

\* get_consolidated_recommendations; agent_types is <<>> for None
GetConsolidatedRecommendations(cache, failing, catalog, agent_types, limit) ==
    LET asked == IF agent_types = <<>> THEN AGENT_REGISTRY ELSE agent_types[1]
        got == CollectFrom(1, asked, cache, failing, catalog, <<>>)
        consolidated == consolidate_recommendations(got.all_recommendations)
    IN  [outcome |-> "return",
         recommendations |-> Slice(SortByPriority(consolidated), limit),
         agents |-> got.agents]

-----------------------------------------------------------------------------
(* The agent calls and the periodic tasks, as actions.                     *)

\* the agent types the calls are made with
AgentTypeInputs == {"cfa", "invalid_agent"}
\* the sets of agents whose analysis raises
FailingSets == { {}, {"cfa"}, {"cfp", "quant_risk"} }

Idle == [pc |-> "idle"]
QueueIdle == [pc |-> "idle", pending_tasks |-> <<>>]

\* run_analysis(agent_type, save_task=False)
run_analysis(agent_type) ==
    /\ running = Idle
    /\ LET run == RunAnalysis(agents, failing_agents, agent_type)
       IN  /\ agent_call' = [op |-> "run_analysis", agent_type |-> agent_type,
                             save_task |-> FALSE]
           /\ agent_result' = Returned(run)
           /\ agents' = run.agents
           /\ analyze_log' = run.analyzed
    /\ UNCHANGED <<agent_tasks, queue_attempts, failing_agents, running, queue,
                   cancel_result, riskVars, capmVars>>

\* run_analysis(agent_type, save_task=True) up to its first commit: the row
\* is created with status pending
run_analysis_create(agent_type) ==
    /\ running = Idle
    /\ Len(agent_tasks) < MaxTasks
    /\ agent_tasks' = Append(agent_tasks, create_task(agent_type))
    /\ queue_attempts' = Append(queue_attempts, 0)
    /\ running' = [pc |-> "created", task |-> Len(agent_tasks) + 1,
                   agent_type |-> agent_type]
    /\ agent_call' = [op |-> "run_analysis", agent_type |-> agent_type,
                      save_task |-> TRUE]
    /\ agent_result' = NoResult
    /\ analyze_log' = <<>>
    /\ UNCHANGED <<agents, failing_agents, queue, cancel_result,
                   riskVars, capmVars>>

\* run_analysis(save_task=True) up to its second commit: task.start()
run_analysis_start ==
    /\ running.pc = "created"
    /\ agent_tasks' = [agent_tasks EXCEPT ![running.task] = start(@)]
    /\ running' = [running EXCEPT !.pc = "started"]
    /\ UNCHANGED <<queue_attempts, agents, failing_agents, agent_call,
                   agent_result, analyze_log, queue, cancel_result,
                   riskVars, capmVars>>

\* run_analysis(save_task=True) to its end: the analysis, then task.complete()
\* or task.fail() on the task object the call holds, and the commit
run_analysis_finish ==
    /\ running.pc = "started"
    /\ LET run == RunAnalysis(agents, failing_agents, running.agent_type)
       IN  /\ agent_tasks' = [agent_tasks EXCEPT ![running.task] =
                                 IF run.outcome = "return" THEN complete(@)
                                 ELSE fail(@)]
           /\ agent_result' = Returned(run)
           /\ agents' = run.agents
           /\ analyze_log' = run.analyzed
    /\ running' = Idle
    /\ UNCHANGED <<queue_attempts, failing_agents, agent_call, queue,
                   cancel_result, riskVars, capmVars>>

\* cancel_task(task_id), called through a manager of its own
cancel_task(task_id) ==
    /\ IF task_id \notin DOMAIN agent_tasks
       THEN /\ cancel_result' = <<FALSE>>
            /\ UNCHANGED agent_tasks
       ELSE IF agent_tasks[task_id].status \in {"pending", "processing"}
       THEN /\ agent_tasks' = [agent_tasks EXCEPT ![task_id] = cancel(@)]
            /\ cancel_result' = <<TRUE>>
       ELSE /\ cancel_result' = <<FALSE>>
            /\ UNCHANGED agent_tasks
    /\ UNCHANGED <<queue_attempts, agents, failing_agents, agent_call,
                   agent_result, analyze_log, running, queue,
                   riskVars, capmVars>>

\* retry_task(task_id): None for a missing or ineligible task; otherwise
\* task.retry(), the commit, and run_analysis(..., save_task=False)
retry_task(task_id) ==
    /\ running = Idle
    /\ agent_call' = [op |-> "retry_task", task_id |-> task_id]
    /\ IF task_id \notin DOMAIN agent_tasks
       THEN /\ agent_result' = [outcome |-> "return", none |-> TRUE]
            /\ analyze_log' = <<>>
            /\ UNCHANGED <<agent_tasks, agents>>
       ELSE IF ~can_retry(agent_tasks[task_id])
       THEN /\ agent_result' = [outcome |-> "return", none |-> TRUE]
            /\ analyze_log' = <<>>
            /\ UNCHANGED <<agent_tasks, agents>>
       ELSE LET run == RunAnalysis(agents, failing_agents,
                                   agent_tasks[task_id].agent_type)
            IN  /\ agent_tasks' = [agent_tasks EXCEPT ![task_id] = retry(@)]
                /\ agent_result' = Returned(run)
                /\ agents' = run.agents
                /\ analyze_log' = run.analyzed
    /\ UNCHANGED <<queue_attempts, failing_agents, running, queue,
                   cancel_result, riskVars, capmVars>>

\* the ids of the pending rows, oldest first, at most QueueLimit of them
RECURSIVE PendingIds(_, _)
PendingIds(tasks, i) ==
    IF i > Len(tasks) THEN <<>>
    ELSE IF tasks[i].status = "pending" THEN <<i>> \o PendingIds(tasks, i + 1)
    ELSE PendingIds(tasks, i + 1)

\* process_agent_queue_task: the query for the pending rows
queue_fetch ==
    /\ queue.pc = "idle"
    /\ LET ids == PendingIds(agent_tasks, 1)
           batch == SubSeq(ids, 1, IF Len(ids) < QueueLimit THEN Len(ids)
                                   ELSE QueueLimit)
       IN  queue' = IF batch = <<>> THEN QueueIdle
                    ELSE [pc |-> "fetched", pending_tasks |-> batch]
    /\ UNCHANGED <<agent_tasks, queue_attempts, agents, failing_agents,
                   agent_call, agent_result, analyze_log, running,
                   cancel_result, riskVars, capmVars>>

\* process_agent_queue_task: the next row of the batch is set to processing
\* and committed
queue_begin ==
    /\ queue.pc = "fetched"
    /\ agent_tasks' = [agent_tasks EXCEPT ![Head(queue.pending_tasks)] =
                          [@ EXCEPT !.status = "processing"]]
    /\ queue' = [queue EXCEPT !.pc = "processing"]
    /\ UNCHANGED <<queue_attempts, agents, failing_agents, agent_call,
                   agent_result, analyze_log, running, cancel_result,
                   riskVars, capmVars>>

\* process_agent_queue_task: the analysis of that row through a manager of
\* its own, then completed, or failed with retry_count one higher
queue_finish ==
    /\ queue.pc = "processing"
    /\ LET id == Head(queue.pending_tasks)
           run == RunAnalysis({}, failing_agents, agent_tasks[id].agent_type)
           rest == Tail(queue.pending_tasks)
       IN  /\ agent_tasks' = [agent_tasks EXCEPT ![id] =
                                 IF run.outcome = "return"
                                 THEN [@ EXCEPT !.status = "completed"]
                                 ELSE [@ EXCEPT !.status = "failed",
                                                !.retry_count = @ + 1]]
           /\ queue_attempts' = [queue_attempts EXCEPT ![id] = @ + 1]
           /\ queue' = IF rest = <<>> THEN QueueIdle
                       ELSE [pc |-> "fetched", pending_tasks |-> rest]
    /\ UNCHANGED <<agents, failing_agents, agent_call, agent_result,
                   analyze_log, running, cancel_result, riskVars, capmVars>>

\* Swept with the limit included
SweptInclusive(task) ==
    IF task.status = "failed" /\ task.retry_count <= SweepMaxRetries
    THEN [task EXCEPT !.status = "pending"]
    ELSE task

\* the row after retry_failed_tasks_task
Swept(task) ==
    IF task.status = "failed" /\ task.retry_count < SweepMaxRetries
    THEN [task EXCEPT !.status = "pending"]
    ELSE task

\* retry_failed_tasks_task
retry_failed_tasks_task ==
    /\ agent_tasks' = [i \in DOMAIN agent_tasks |-> Swept(agent_tasks[i])]
    /\ UNCHANGED <<queue_attempts, agents, failing_agents, agent_call,
                   agent_result, analyze_log, running, queue, cancel_result,
                   riskVars, capmVars>>

\* run_all_analyses(save_tasks=False)
run_all_analyses ==
    /\ running = Idle
    /\ LET all == RunAllFrom(1, agents, failing_agents, <<>>, <<>>)
       IN  /\ agent_call' = [op |-> "run_all_analyses", save_tasks |-> FALSE]
           /\ agent_result' = [outcome |-> "return", results |-> all.results]
           /\ agents' = all.agents
           /\ analyze_log' = all.analyzed
    /\ UNCHANGED <<agent_tasks, queue_attempts, failing_agents, running, queue,
                   cancel_result, riskVars, capmVars>>

\* what the agents recommend: per agent type, its recommendations in order
Rec(type, priority) == [type |-> type, priority |-> priority]
Catalogs ==
    { [t \in RegisteredTypes \cup {"invalid_agent"} |->
          CASE t = "cfa" -> <<Rec("rebalancing", "medium"),
                              Rec("risk_reduction", "low")>>
            [] t = "cfp" -> <<Rec("retirement_savings", "high"),
                              Rec("rebalancing", "urgent")>>
            [] t = "cio" -> <<Rec("rebalancing", "low")>>
            [] OTHER -> <<>>],
      [t \in RegisteredTypes \cup {"invalid_agent"} |->
          CASE t = "cfa" -> <<Rec("tax_loss_harvesting", "low")>>
            [] t = "accountant" -> <<Rec("tax_loss_harvesting", "high"),
                                     Rec("estate_review", "medium")>>
            [] t = "quant_risk" -> <<Rec("risk_reduction", "urgent")>>
            [] OTHER -> <<>>] }
\* the agent_types argument: <<>> is None
AgentTypeLists ==
    { <<>>, << <<"cfa", "cfp">> >>, << <<"cfa", "invalid_agent", "cio">> >>,
      << <<"accountant", "cfa", "cfa">> >> }
\* the max_recommendations argument
MaxRecommendations == {-1, 0, 1, 2, 20}

\* get_consolidated_recommendations(agent_types, max_recommendations)
get_consolidated_recommendations(catalog, agent_types, max_recommendations) ==
    /\ running = Idle
    /\ LET got == GetConsolidatedRecommendations(agents, failing_agents,
                      catalog, agent_types, max_recommendations)
       IN  /\ agent_call' = [op |-> "get_consolidated_recommendations",
                             catalog |-> catalog,
                             agent_types |-> agent_types,
                             max_recommendations |-> max_recommendations]
           /\ agent_result' = [outcome |-> "return",
                               recommendations |-> got.recommendations]
           /\ agents' = got.agents
           /\ analyze_log' = <<>>
    /\ UNCHANGED <<agent_tasks, queue_attempts, failing_agents, running, queue,
                   cancel_result, riskVars, capmVars>>

\* no risk service at work
InitRiskIdle ==
    /\ portfolio_data = Snapshot(<<>>, 0)
    /\ returns_cache = <<>>
    /\ yf = [status |-> "missing", empty |-> TRUE, returns |-> <<>>]
    /\ risk_call = NoCall
    /\ risk_result = NoResult

InitAgent ==
    /\ agent_tasks = <<>>
    /\ queue_attempts = <<>>
    /\ agents = {}
    /\ failing_agents \in FailingSets
    /\ agent_call = NoCall
    /\ agent_result = NoResult
    /\ analyze_log = <<>>
    /\ running = Idle
    /\ queue = QueueIdle
    /\ cancel_result = <<>>
    /\ InitCapmIdle
    /\ InitRiskIdle

\* the manager's calls that leave the task table alone
NextManager ==
    \/ \E t \in AgentTypeInputs : run_analysis(t)
    \/ run_all_analyses
    \/ \E catalog \in Catalogs, agent_types \in AgentTypeLists,
          m \in MaxRecommendations :
          get_consolidated_recommendations(catalog, agent_types, m)

SpecManager == InitAgent /\ [][NextManager]_vars

\* the life of the task rows: analyses that save their task, cancel and
\* retry requests, the queue worker and the retry sweep
NextTasks ==
    \/ \E t \in AgentTypeInputs : run_analysis(t)
    \/ \E t \in AgentTypeInputs : run_analysis_create(t)
    \/ run_analysis_start
    \/ run_analysis_finish
    \/ \E id \in 1..MaxTasks : cancel_task(id)
    \/ \E id \in 1..MaxTasks : retry_task(id)
    \/ queue_fetch
    \/ queue_begin
    \/ queue_finish
    \/ retry_failed_tasks_task

SpecTasks == InitAgent /\ [][NextTasks]_vars

\* most rows the task table holds when the periodic tasks start
MaxQueued == 2
\* the rows run_analysis leaves for the periodic tasks: created and not yet
\* started, or failed
QueuedRows ==
    UNION {{create_task(t), fail(start(create_task(t)))} :
              t \in {"cfa", "cfp", "invalid_agent"}}

InitQueue ==
    /\ agent_tasks \in UNION {[1..n -> QueuedRows] : n \in 1..MaxQueued}
    /\ queue_attempts = [i \in DOMAIN agent_tasks |-> 0]
    /\ agents = {}
    /\ failing_agents \in FailingSets
    /\ agent_call = NoCall
    /\ agent_result = NoResult
    /\ analyze_log = <<>>
    /\ running = Idle
    /\ queue = QueueIdle
    /\ cancel_result = <<>>
    /\ InitCapmIdle
    /\ InitRiskIdle

\* the periodic tasks alone
NextQueue ==
    \/ queue_fetch
    \/ queue_begin
    \/ queue_finish
    \/ retry_failed_tasks_task

\* the periodic tasks run again and again, and a run that has started goes on
SpecQueue ==
    /\ InitQueue
    /\ [][NextQueue]_vars
    /\ WF_vars(queue_fetch)
    /\ WF_vars(queue_begin)
    /\ WF_vars(queue_finish)
    /\ WF_vars(retry_failed_tasks_task)

-----------------------------------------------------------------------------
(* Properties of the agent tasks, checked under SpecTasks.                 *)

\* C24: a step that leaves run_analysis with an agent type outside the
\* registry as the current call caches no agent and starts no analysis, and
\* once the call is over, with or without a saved task, its outcome is
\* AgentError.
C24_UnregisteredTypeRaises ==
    [][(/\ agent_call'.op = "run_analysis"
        /\ agent_call'.agent_type \notin RegisteredTypes)
          => /\ agents' = agents
             /\ analyze_log' = <<>>
             /\ agent_call'.agent_type \notin agents'
             /\ IF running'.pc = "idle"
                THEN agent_result' = [outcome |-> "raise", exception |-> "AgentError"]
                ELSE agent_result' = NoResult /\ agent_call'.save_task]_vars

\* C24 witness: a run_analysis with save_task set and an unregistered type
\* has raised AgentError on a manager that has another agent cached, and its
\* task row is failed.
C24_Witness ==
    /\ agent_call.op = "run_analysis"
    /\ agent_call.agent_type = "invalid_agent"
    /\ agent_call.save_task
    /\ agent_result = [outcome |-> "raise", exception |-> "AgentError"]
    /\ agents = {"cfa"}
    /\ \E i \in DOMAIN agent_tasks :
          /\ agent_tasks[i].agent_type = "invalid_agent"
          /\ agent_tasks[i].status = "failed"

\* C25: the step in which retry_task re-runs an eligible failed task leaves
\* that row completed when it returns a response and failed when the re-run
\* raised, never pending or processing.
C25_RetryFinishesTask ==
    [][(/\ agent_call'.op = "retry_task"
        /\ agent_call'.task_id \in DOMAIN agent_tasks
        /\ agent_tasks'[agent_call'.task_id].retry_count
              = agent_tasks[agent_call'.task_id].retry_count + 1
        /\ agent_tasks[agent_call'.task_id].status = "failed"
        /\ queue' = queue)
          => agent_tasks'[agent_call'.task_id].status
                = IF agent_result'.outcome = "return" THEN "completed"
                  ELSE "failed"]_vars

\* C26: a row whose status is cancelled keeps that status in every step.
C26_CancelledIsFinal ==
    [][\A i \in DOMAIN agent_tasks :
          agent_tasks[i].status = "cancelled"
              => agent_tasks'[i].status = "cancelled"]_vars

\* C27: every row has retry_count <= max_retries.
C27_RetryCountBounded ==
    \A i \in DOMAIN agent_tasks :
        agent_tasks[i].retry_count <= agent_tasks[i].max_retries

-----------------------------------------------------------------------------
(* Properties of the periodic tasks, checked under SpecQueue.              *)

\* the analysis of row i raises whenever it is run
AlwaysFails(i) ==
    \/ agent_tasks[i].agent_type \notin RegisteredTypes
    \/ agent_tasks[i].agent_type \in failing_agents

\* C28: for a row whose analysis fails on every attempt, the queue runs the
\* analysis at most 3 times, no step sets the row to pending once it has run
\* 3 times, and from some point on the row stays failed.
C28_FailingTaskEndsFailed ==
    /\ [](\A i \in DOMAIN agent_tasks :
            AlwaysFails(i) => queue_attempts[i] <= 3)
    /\ [][\A i \in DOMAIN agent_tasks :
            (AlwaysFails(i) /\ queue_attempts[i] >= 3)
                => agent_tasks'[i].status # "pending"]_vars
    /\ <>[](\A i \in DOMAIN agent_tasks :
            AlwaysFails(i) => agent_tasks[i].status = "failed")

\* C28 witness: two rows whose analysis always fails have each been run 3
\* times by the queue and are failed with retry_count 3.
C28_Witness ==
    /\ Len(agent_tasks) = 2
    /\ \A i \in DOMAIN agent_tasks :
          /\ AlwaysFails(i)
          /\ queue_attempts[i] = 3
          /\ agent_tasks[i].status = "failed"
          /\ agent_tasks[i].retry_count = 3

-----------------------------------------------------------------------------
(* Properties of the manager's calls, checked under SpecManager.           *)

\* C29: run_all_analyses starts the analysis of every registered agent type
\* exactly once, returns an entry for exactly the agents that did not fail,
\* and each entry is the response of the agent it is keyed by.
C29_RunAllAttemptsEveryAgent ==
    agent_call.op = "run_all_analyses" =>
        /\ analyze_log = AGENT_REGISTRY
        /\ \A t \in RegisteredTypes :
              Cardinality({k \in DOMAIN analyze_log : analyze_log[k] = t}) = 1
        /\ DOMAIN agent_result.results = RegisteredTypes \ failing_agents
        /\ \A t \in DOMAIN agent_result.results :
              agent_result.results[t].produced_by = t

\* C29 witness: run_all_analyses has returned with the second and the fifth
\* agent of the registry failing and the other four in the dictionary.
C29_Witness ==
    /\ agent_call.op = "run_all_analyses"
    /\ failing_agents = {"cfp", "quant_risk"}
    /\ DOMAIN agent_result.results
          = {"cfa", "cio", "accountant", "quant_strategy"}

\* C30: get_consolidated_recommendations returns at most max_recommendations
\* entries, at most one per type, in non-increasing priority; a merged entry
\* has the highest priority of the recommendations of its type and counts
\* them; failing agents contribute nothing.
C30_ConsolidationContract ==
    agent_call.op = "get_consolidated_recommendations" =>
        LET asked == IF agent_call.agent_types = <<>> THEN AGENT_REGISTRY
                     ELSE agent_call.agent_types[1]
            \* the recommendations handed over by the agents that work
            working == {k \in DOMAIN asked :
                           asked[k] \in RegisteredTypes \ failing_agents}
            given == UNION {{<<k, j>> :
                                j \in 1..Len(agent_call.catalog[asked[k]])} :
                            k \in working}
            Recommendations == agent_result.recommendations
            OfType(ty) == {p \in given :
                              agent_call.catalog[asked[p[1]]][p[2]].type = ty}
        IN  /\ Len(Recommendations) <= agent_call.max_recommendations
            /\ \A a, b \in DOMAIN Recommendations :
                  a < b => /\ Recommendations[a].type # Recommendations[b].type
                           /\ priority_order(Recommendations[a].priority)
                                 <= priority_order(Recommendations[b].priority)
            /\ \A a \in DOMAIN Recommendations :
                  LET e == Recommendations[a]
                      src == OfType(e.type)
                  IN  /\ src # {}
                      /\ \A p \in src :
                            priority_order(e.priority) <= priority_order(
                                agent_call.catalog[asked[p[1]]][p[2]].priority)
                      /\ "consensus_count" \in DOMAIN e
                            => e.consensus_count = Cardinality(src)

====
